---- MODULE Spec2Model ----
(***************************************************************************)
(* A model of the cocktail crawler of scraper.py: the progress ledger      *)
(* (ScraperProgress), the rate-limited fetcher, the SQLite record store,   *)
(* the enumeration of cocktail ids, the five-stage run and the JSON        *)
(* export, together with the reader of db_client.py.                       *)
(*                                                                         *)
(* Text is a sequence of one-character strings, so that strip(), split()   *)
(* and SQL's || are computed on characters.  A table is the sequence of    *)
(* its rows in rowid order.  The process can be killed at any step; what   *)
(* survives is the disk: the three tables, the image files, the ledger     *)
(* file and the two export files.                                          *)
(***************************************************************************)
EXTENDS Integers, Sequences, FiniteSets, TLC

(***************************************************************************)
(* Bounds                                                                  *)
(***************************************************************************)
\* cocktail ids known to the upstream API (the crawl of the pipeline)
NumCocktails == 2
\* symbols of the enumeration alphabet (36 in the code)
NumSymbols == 3
\* strIngredient1..N / strMeasure1..N slots of a drink (15 in the code)
NumSlots == 3
\* faults in one behaviour: a failed fetch, a record without its name, or a
\* kill of the process (any number of runs may follow one another)
MaxFaults == 1

CocktailIds == 1..NumCocktails
Slots == 1..NumSlots

(***************************************************************************)
(* Python and SQL values                                                   *)
(***************************************************************************)
\* None / NULL for text values; no text of the model contains this token
Null == <<"NULL">>
\* a missing idDrink
NullId == 0
\* the failure sentinel of _fetch_json (None)
None == [kind |-> "none"]
\* a response of status 200 whose "drinks" or "ingredients" is null or empty
NoRecords == [kind |-> "empty"]

\* truthiness of an Optional[str]
Truthy(s) == s # Null /\ s # <<>>

RECURSIVE lstrip(_)
lstrip(s) == IF s # <<>> /\ Head(s) = " " THEN lstrip(Tail(s)) ELSE s

RECURSIVE rstrip(_)
rstrip(s) == IF s # <<>> /\ s[Len(s)] = " " THEN rstrip(SubSeq(s, 1, Len(s) - 1)) ELSE s

\* str.strip()
strip(s) == rstrip(lstrip(s))

\* s.startswith(p)
StartsWith(s, p) == Len(s) >= Len(p) /\ SubSeq(s, 1, Len(p)) = p

\* sep in s
RECURSIVE Contains(_, _)
Contains(s, sep) ==
    IF Len(s) < Len(sep) THEN FALSE
    ELSE StartsWith(s, sep) \/ Contains(Tail(s), sep)

\* s.split(sep), scanning left to right without overlap
RECURSIVE SplitFrom(_, _, _)
SplitFrom(acc, s, sep) ==
    IF Len(s) < Len(sep) THEN <<acc \o s>>
    ELSE IF StartsWith(s, sep)
         THEN <<acc>> \o SplitFrom(<<>>, SubSeq(s, Len(sep) + 1, Len(s)), sep)
         ELSE SplitFrom(Append(acc, Head(s)), Tail(s), sep)

split(s, sep) == SplitFrom(<<>>, s, sep)

\* s.replace(old, new) for a one-character old
RECURSIVE replace(_, _, _)
replace(s, old, new) ==
    IF s = <<>> THEN <<>>
    ELSE (IF Head(s) = old THEN new ELSE <<Head(s)>>) \o replace(Tail(s), old, new)

\* code points of the characters the model uses
CharCode(c) ==
    CASE c = " " -> 32
      [] c = "-" -> 45
      [] c = "/" -> 47
      [] c = "1" -> 49
      [] c = "2" -> 50
      [] c = ":" -> 58
      [] c = "_" -> 95
      [] c = "a" -> 97
      [] c = "b" -> 98
      [] c = "|" -> 124
      [] OTHER -> 127

\* s < t for str
RECURSIVE StrLess(_, _)
StrLess(s, t) ==
    IF t = <<>> THEN FALSE
    ELSE IF s = <<>> THEN TRUE
    ELSE IF Head(s) = Head(t) THEN StrLess(Tail(s), Tail(t))
    ELSE CharCode(Head(s)) < CharCode(Head(t))

\* the elements of a list
Range(q) == {q[i] : i \in DOMAIN q}

\* a membership test that finds nothing
InListNever(x, q) == FALSE

\* x in list
InList(x, q) == \E i \in DOMAIN q : q[i] = x

\* [x for x in q if x not in done]
RECURSIVE NotIn(_, _)
NotIn(q, done) ==
    IF q = <<>> THEN <<>>
    ELSE (IF InList(Head(q), done) THEN <<>> ELSE <<Head(q)>>) \o NotIn(Tail(q), done)

(***************************************************************************)
(* The upstream API's records                                              *)
(***************************************************************************)
\* one strIngredient<i> / strMeasure<i> pair as the lookup endpoint sends it
SlotValues ==
    { [ing |-> Null,             meas |-> Null],
      [ing |-> <<" ">>,          meas |-> <<"1">>],
      [ing |-> <<"a", " ">>,     meas |-> Null],
      [ing |-> <<" ", "b">>,     meas |-> <<"1", ":", ":", "2", " ">>] }

\* the thumbnail URL of a drink
ThumbUrl == <<"u">>
\* the name of a drink
DrinkName == <<"n">>

\* a drink of the lookup endpoint: data["drinks"][0]
Drink(id, name, thumb, slots) ==
    [idDrink |-> id, strDrink |-> name, strDrinkThumb |-> thumb, slots |-> slots]

\* the drinks the store specification downloads: every filling of the slots
StoreDrinks(id) == { Drink(id, DrinkName, ThumbUrl, f) : f \in [Slots -> SlotValues] }

(***************************************************************************)
(* Record store: scraper.py, download_cocktail                             *)
(***************************************************************************)
\* the loop with the test "if ingredient:" alone, without ingredient.strip()
RECURSIVE CollectIngredientsUnstripped(_, _)
CollectIngredientsUnstripped(drink, i) ==
    IF i > NumSlots THEN <<>>
    ELSE LET ingredient == drink.slots[i].ing
             measure    == drink.slots[i].meas
         IN (IF Truthy(ingredient)
             THEN << [ingredient |-> strip(ingredient),
                      measure    |-> strip(IF Truthy(measure) THEN measure ELSE <<>>),
                      position   |-> i] >>
             ELSE <<>>) \o CollectIngredientsUnstripped(drink, i + 1)

\* the loop over range(1, 16): one (ingredient, measure, i) per non-blank slot
RECURSIVE CollectIngredients(_, _)
CollectIngredients(drink, i) ==
    IF i > NumSlots THEN <<>>
    ELSE LET ingredient == drink.slots[i].ing
             measure    == drink.slots[i].meas
         IN (IF Truthy(ingredient) /\ Truthy(strip(ingredient))
             THEN << [ingredient |-> strip(ingredient),
                      measure    |-> strip(IF Truthy(measure) THEN measure ELSE <<>>),
                      position   |-> i] >>
             ELSE <<>>) \o CollectIngredients(drink, i + 1)

ExtractIngredients(drink) == CollectIngredients(drink, 1)

\* the row INSERT OR REPLACE INTO cocktails writes: image_local_path is not
\* among the listed columns and gets its default, NULL
CocktailRow(drink) ==
    [id               |-> drink.idDrink,
     name             |-> drink.strDrink,
     image_url        |-> drink.strDrinkThumb,
     image_local_path |-> Null,
     raw_json         |-> drink]

\* a plain INSERT into a table without the primary key
InsertOrReplacePlain(table, row) == Append(table, row)

\* an upsert that updates the listed columns of the row in conflict and
\* keeps its other columns: INSERT ... ON CONFLICT(id) DO UPDATE
InsertOrUpdate(table, row) ==
    LET old == SelectSeq(table, LAMBDA r : r.id = row.id)
    IN IF row.id = NullId \/ old = <<>> THEN Append(table, row)
       ELSE SelectSeq(table, LAMBDA r : r.id # row.id)
            \o << [row EXCEPT !.image_local_path = old[1].image_local_path] >>

\* INSERT OR REPLACE on the primary key id TEXT PRIMARY KEY: the rows in
\* conflict are deleted and the new row gets a fresh rowid; a NULL key
\* conflicts with nothing
InsertOrReplace(table, row) ==
    IF row.id = NullId THEN Append(table, row)
    ELSE SelectSeq(table, LAMBDA r : r.id # row.id) \o <<row>>

\* download_cocktail without the DELETE: the old line items stay
DeleteIngredientsNone(table, cocktail_id) == table

\* DELETE FROM cocktail_ingredients WHERE cocktail_id = ?
DeleteIngredients(table, cocktail_id) ==
    SelectSeq(table, LAMBDA r : r.cocktail_id # cocktail_id)

\* the loop writing the place of the item in the list as its position
InsertIngredientsNumbered(table, cocktail_id, items) ==
    table \o [k \in 1..Len(items) |->
                [cocktail_id |-> cocktail_id,
                 ingredient  |-> items[k].ingredient,
                 measure     |-> items[k].measure,
                 position    |-> k]]

\* the INSERT INTO cocktail_ingredients loop, in the order of the list
InsertIngredients(table, cocktail_id, items) ==
    table \o [k \in 1..Len(items) |->
                [cocktail_id |-> cocktail_id,
                 ingredient  |-> items[k].ingredient,
                 measure     |-> items[k].measure,
                 position    |-> items[k].position]]

\* the three statements of download_cocktail and their commit, on the pair
\* of tables
StoreCocktail(db, cocktail_id, drink) ==
    [cocktails |-> InsertOrReplace(db.cocktails, CocktailRow(drink)),
     cocktail_ingredients |->
        InsertIngredients(DeleteIngredients(db.cocktail_ingredients, cocktail_id),
                          cocktail_id, ExtractIngredients(drink))]

(***************************************************************************)
(* Reader: db_client.py, CocktailDBClient._get_ingredients                 *)
(***************************************************************************)
\* insert a row into a list sorted by position, after the rows of its position
RECURSIVE InsertByPosition(_, _)
InsertByPosition(sorted, row) ==
    IF sorted = <<>> THEN <<row>>
    ELSE IF row.position < Head(sorted).position THEN <<row>> \o sorted
    ELSE <<Head(sorted)>> \o InsertByPosition(Tail(sorted), row)

\* ORDER BY position
RECURSIVE OrderByPosition(_)
OrderByPosition(rows) ==
    IF rows = <<>> THEN <<>>
    ELSE InsertByPosition(OrderByPosition(SubSeq(rows, 1, Len(rows) - 1)), rows[Len(rows)])

\* WHERE cocktail_id = ?
IngredientRowsOf(table, cocktail_id) ==
    SelectSeq(table, LAMBDA r : r.cocktail_id = cocktail_id)

\* the (ingredient, measure) pairs in position order.  scraper.py neither
\* creates nor fills ingredient_ru and measure_ru: on the rows it writes they
\* are taken as NULL, and "x_ru or x" reads the original text
get_ingredients(table, cocktail_id) ==
    LET rows == OrderByPosition(IngredientRowsOf(table, cocktail_id))
    IN [k \in 1..Len(rows) |->
          <<rows[k].ingredient,
            IF Truthy(rows[k].measure) THEN rows[k].measure ELSE <<>> >>]

(***************************************************************************)
(* Translation of the line items: translate_ingredients.py, main           *)
(***************************************************************************)
\* an UPDATE keyed on the cocktail and the ingredient name
TranslationTargetsByName(table, row) ==
    {j \in DOMAIN table : /\ table[j].cocktail_id = row.cocktail_id
                          /\ table[j].ingredient = row.ingredient}

\* the rows that UPDATE cocktail_ingredients SET ingredient_ru = ?,
\* measure_ru = ? WHERE cocktail_id = ? AND position = ? changes, with the
\* cocktail_id and position of a row that was selected
TranslationTargets(table, row) ==
    {j \in DOMAIN table : /\ table[j].cocktail_id = row.cocktail_id
                          /\ table[j].position = row.position}

(***************************************************************************)
(* Snapshot exporter: scraper.py, export_to_json                           *)
(***************************************************************************)
\* ascending list of a finite set of integers
RECURSIVE SortedIds(_)
SortedIds(S) ==
    IF S = {} THEN <<>>
    ELSE LET m == CHOOSE x \in S : \A y \in S : x <= y
         IN <<m>> \o SortedIds(S \ {m})

\* sep.join(parts)
RECURSIVE Join(_, _)
Join(parts, sep) ==
    IF parts = <<>> THEN <<>>
    ELSE IF Len(parts) = 1 THEN parts[1]
    ELSE parts[1] \o sep \o Join(Tail(parts), sep)

\* GROUP_CONCAT(ci.ingredient || '::' || COALESCE(ci.measure, ''), '||') over
\* the line items joined to one cocktail, in rowid order; NULL for a cocktail
\* the LEFT JOIN pairs with no line item
GroupConcat(table, cocktail_id) ==
    LET rows == IngredientRowsOf(table, cocktail_id)
    IN IF rows = <<>> THEN Null
       ELSE Join([k \in 1..Len(rows) |->
                    rows[k].ingredient \o <<":", ":">> \o
                    (IF rows[k].measure = Null THEN <<>> ELSE rows[k].measure)],
                 <<"|", "|">>)

\* the list comprehension over ingredients_list.split("||")
ParseIngredients(ingredients_list) ==
    LET items == SelectSeq(split(ingredients_list, <<"|", "|">>), LAMBDA i : i # <<>>)
    IN [k \in 1..Len(items) |->
          [ingredient |-> split(items[k], <<":", ":">>)[1],
           measure    |-> IF Contains(items[k], <<":", ":">>)
                          THEN split(items[k], <<":", ":">>)[2]
                          ELSE <<>>]]

\* one object of cocktails.json: the columns of the row, and the key
\* "ingredients" only when ingredients_list is truthy
CocktailObject(row, ingredients_list) ==
    IF Truthy(ingredients_list)
    THEN [id |-> row.id, name |-> row.name, image_url |-> row.image_url,
          image_local_path |-> row.image_local_path, raw_json |-> row.raw_json,
          ingredients |-> ParseIngredients(ingredients_list)]
    ELSE [id |-> row.id, name |-> row.name, image_url |-> row.image_url,
          image_local_path |-> row.image_local_path, raw_json |-> row.raw_json]

\* the first row of the table with the given id
RowOf(table, id) == table[CHOOSE k \in DOMAIN table :
                            table[k].id = id /\ \A j \in 1..(k - 1) : table[j].id # id]

\* the document written to cocktails.json: one object per group of GROUP BY
\* c.id.  json.dump and a later json.load give back the same lists, objects
\* and texts, so the document is kept as the list of its objects.
ExportCocktails(db) ==
    LET ids == SortedIds({db.cocktails[k].id : k \in DOMAIN db.cocktails})
    IN [k \in 1..Len(ids) |->
          CocktailObject(RowOf(db.cocktails, ids[k]),
                         GroupConcat(db.cocktail_ingredients, ids[k]))]

\* the document written to ingredients.json: SELECT * FROM ingredients
ExportIngredients(table) == table

(***************************************************************************)
(* Progress ledger: scraper.py, ScraperProgress                            *)
(***************************************************************************)
\* the four lists of a new ScraperProgress (the two timestamps are left out:
\* nothing reads them)
EmptyProgress ==
    [cocktails_downloaded         |-> <<>>,
     ingredients_downloaded       |-> <<>>,
     cocktail_images_downloaded   |-> <<>>,
     ingredient_images_downloaded |-> <<>>]

\* the ledger file: absent, a complete JSON document, or the remains of a
\* write that open(PROGRESS_FILE, "w") began and json.dump did not finish
NoFile == [state |-> "absent", data |-> EmptyProgress]
Truncated == [state |-> "partial", data |-> EmptyProgress]
Written(p) == [state |-> "valid", data |-> p]

\* ScraperProgress.load: the document of the file, or an empty ledger when
\* the file is absent or json.load raises
load(file) == IF file.state = "valid" THEN file.data ELSE EmptyProgress

\* a download that saves the ledger without the append
AppendUnitNone(p, stage, unit) == p

\* self.progress.<list of the stage>.append(unit)
AppendUnit(p, stage, unit) ==
    CASE stage = "cocktails" ->
           [p EXCEPT !.cocktails_downloaded = Append(@, unit)]
      [] stage = "ingredients" ->
           [p EXCEPT !.ingredients_downloaded = Append(@, unit)]
      [] stage = "cocktail_images" ->
           [p EXCEPT !.cocktail_images_downloaded = Append(@, unit)]
      [] stage = "ingredient_images" ->
           [p EXCEPT !.ingredient_images_downloaded = Append(@, unit)]

\* the list of the ledger that a stage reads and appends to
StageList(p, stage) ==
    CASE stage = "cocktails"         -> p.cocktails_downloaded
      [] stage = "ingredients"       -> p.ingredients_downloaded
      [] stage = "cocktail_images"   -> p.cocktail_images_downloaded
      [] stage = "ingredient_images" -> p.ingredient_images_downloaded
      [] OTHER                       -> <<>>

ImageStages == {"cocktail_images", "ingredient_images"}

(***************************************************************************)
(* Enumeration driver: scraper.py, get_all_cocktail_ids, get_all_ingredients*)
(***************************************************************************)
\* the answers of search.php?f=<symbol>: a failure, or the idDrink values of
\* its drinks (a drink may lack the id; an empty list is falsy)
SearchResponses ==
    {None} \cup { [kind |-> "drinks", ids |-> S] : S \in SUBSET (CocktailIds \cup {NullId}) }

\* the loop body with all_ids rebuilt from the drinks of one answer instead
\* of added to
AddIdsOverwrite(ids, data) ==
    IF data = None \/ data.ids = {} THEN ids
    ELSE data.ids \ {NullId}

\* the body of the loop over the letters: all_ids.add(drink_id) for every
\* drink with a truthy id, when data and data.get("drinks")
AddIds(ids, data) ==
    IF data = None \/ data.ids = {} THEN ids
    ELSE ids \cup (data.ids \ {NullId})

\* sorted(all_ids)
sorted_ids(ids) == SortedIds(ids)

\* what the API holds under a symbol in the crawl: the cocktails numbered
\* with the symbol and the one after it, and under the last symbol a drink
\* without an id
Catalog(symbol) ==
    [kind |-> "drinks",
     ids  |-> {id \in CocktailIds : id = symbol \/ id = symbol + 1}
              \cup (IF symbol = NumSymbols THEN {NullId} ELSE {})]

\* the strIngredient1 values of the listing in the crawl
Listing == [kind |-> "drinks",
            names |-> << <<"a", "_", "b">>, Null, <<"a", " ", "b">>, <<"a", " ", "b">> >>]

\* the idIngredient the API gives a name
IngredientId(name) == IF name = <<"a", " ", "b">> THEN 1 ELSE 2

\* insert a name into a sorted list of names, after its equals
RECURSIVE InsertName(_, _)
InsertName(q, x) ==
    IF q = <<>> THEN <<x>>
    ELSE IF StrLess(x, Head(q)) THEN <<x>> \o q
    ELSE <<Head(q)>> \o InsertName(Tail(q), x)

\* sorted(ingredients) for a list of str
RECURSIVE sorted_names(_)
sorted_names(q) ==
    IF q = <<>> THEN <<>>
    ELSE InsertName(sorted_names(SubSeq(q, 1, Len(q) - 1)), q[Len(q)])

\* get_all_ingredients on an answer
get_all_ingredients(data) ==
    IF data = None \/ data.names = <<>> THEN <<>>
    ELSE sorted_names(SelectSeq(data.names, LAMBDA n : Truthy(n)))

(***************************************************************************)
(* The answers of the record endpoints                                     *)
(***************************************************************************)
\* the fillings of the slots the crawl meets: one ingredient, or two with a
\* blank slot between them
SlotsOne == [i \in Slots |-> IF i = 1 THEN [ing |-> <<"a", " ">>, meas |-> Null]
                             ELSE [ing |-> Null, meas |-> Null]]
SlotsTwo == [i \in Slots |-> IF i \in {1, NumSlots}
                             THEN [ing |-> <<" ", "b">>, meas |-> <<"1">>]
                             ELSE [ing |-> <<" ">>, meas |-> Null]]

\* the answers of lookup.php?i=<id>: a failure, no drinks, a drink with a
\* thumbnail, a later revision of it without one, or a drink without a name
LookupResponses(cocktail_id) ==
    { None, NoRecords,
      Drink(cocktail_id, DrinkName, ThumbUrl, SlotsOne),
      Drink(cocktail_id, DrinkName, Null, SlotsTwo),
      Drink(cocktail_id, Null, ThumbUrl, SlotsOne) }

\* the ingredient the search matches first whatever the name asked for
FirstMatch == <<"a", " ", "b">>

\* the answers of search.php?i=<name>: a failure, no ingredients, the
\* ingredient of that name, an ingredient without a name, or the ingredient
\* that the search matches first (data["ingredients"][0] is taken as it is)
IngredientResponses(name) ==
    { None, NoRecords,
      [idIngredient |-> IngredientId(name), strIngredient |-> name],
      [idIngredient |-> IngredientId(name), strIngredient |-> Null],
      [idIngredient |-> IngredientId(FirstMatch), strIngredient |-> FirstMatch] }

\* the row INSERT OR REPLACE INTO ingredients writes
IngredientRow(ing, ingredient_name) ==
    [id               |-> ing.idIngredient,
     name             |-> ing.strIngredient,
     image_url        |-> ingredient_name \o <<"-", "M">>,
     image_local_path |-> Null,
     raw_json         |-> ing]

\* the file name of an ingredient's image
safe_filename(ingredient_name) ==
    replace(replace(ingredient_name, "/", <<"-">>), " ", <<"_">>)

\* download_cocktail_image without its UPDATE
UpdateCocktailPathNone(table, cocktail_id) == table

\* UPDATE cocktails SET image_local_path = ? WHERE id = ?
UpdateCocktailPath(table, cocktail_id) ==
    [k \in DOMAIN table |->
        IF table[k].id = cocktail_id
        THEN [table[k] EXCEPT !.image_local_path = <<"c", "/">> \o <<cocktail_id>>]
        ELSE table[k]]

\* UPDATE ingredients SET image_local_path = ? WHERE name = ?
UpdateIngredientPath(table, ingredient_name) ==
    [k \in DOMAIN table |->
        IF table[k].name = ingredient_name
        THEN [table[k] EXCEPT !.image_local_path = <<"i", "/">> \o safe_filename(ingredient_name)]
        ELSE table[k]]

\* _download_image without the test of save_path.exists()
ImageOutcomesNoCheck(exists) == {"downloaded", "failed"}

\* _download_image: what the call can do, given save_path.exists()
ImageOutcomes(exists) ==
    IF exists THEN {"exists"} ELSE {"downloaded", "failed"}

(***************************************************************************)
(* State                                                                   *)
(***************************************************************************)
VARIABLES
    \* the disk
    cocktails,              \* table cocktails, rows in rowid order
    cocktail_ingredients,   \* table cocktail_ingredients, rows in rowid order
    ingredients,            \* table ingredients, rows in rowid order
    cocktail_image_files,   \* ids X with a file images/cocktails/X.jpg
    ingredient_image_files, \* names F with a file images/ingredients/F.png
    progress_file,          \* scraper_progress.json
    cocktails_json,         \* cocktails.json
    ingredients_json,       \* ingredients.json
    \* the process
    pc,                     \* where the process is; "stopped": no process
    stage,                  \* the stage of run the process is in
    progress,               \* self.progress
    all_ids,                \* all_ids of get_all_cocktail_ids
    letter,                 \* the next symbol get_all_cocktail_ids searches
    all_cocktail_ids,       \* all_cocktail_ids of run
    all_ingredients,        \* all_ingredients of run
    remaining,              \* the units the loop of the stage has yet to do
    \* what each run and each step did, for the properties
    loaded,                 \* the ledger as __init__ loaded it
    lookups,                \* lookup fetches issued in this run, per cocktail id
    got,                    \* cocktail ids whose lookup gave a record in this run
    io,                     \* the delays and requests of the latest step
    expected,               \* units ledgered or committed when the process ended
    crash,                  \* the unit in flight when the previous process was killed
    lost,                   \* units committed before the last end and not loaded
    began,                  \* the faults so far when the run began
    faults,                 \* failed fetches, nameless records and kills so far
    \* the inputs of the store and enumeration specifications
    plan,                   \* the downloads to apply: <<cocktail id, drink>> each
    answers                 \* the answers the searches got

disk == <<cocktails, cocktail_ingredients, ingredients, cocktail_image_files,
          ingredient_image_files, progress_file, cocktails_json, ingredients_json>>
store == <<cocktails, cocktail_ingredients, ingredients>>
files == <<cocktail_image_files, ingredient_image_files>>
exports == <<cocktails_json, ingredients_json>>
discovery == <<all_ids, letter, all_cocktail_ids, all_ingredients>>
history == <<loaded, lookups, got, expected, crash, lost, began>>
inputs == <<plan, answers>>
vars == <<disk, pc, stage, progress, discovery, remaining, history, io, faults, inputs>>

DB == [cocktails |-> cocktails, cocktail_ingredients |-> cocktail_ingredients]

NoExport == [exists |-> FALSE, doc |-> <<>>]
Exported(doc) == [exists |-> TRUE, doc |-> doc]

\* the four sets of a ledger
UnitsOf(p) ==
    [cocktails         |-> Range(p.cocktails_downloaded),
     ingredients       |-> Range(p.ingredients_downloaded),
     cocktail_images   |-> Range(p.cocktail_images_downloaded),
     ingredient_images |-> Range(p.ingredient_images_downloaded)]

NoUnits == UnitsOf(EmptyProgress)

\* the units of a that are not in b
UnitsMinus(a, b) ==
    [cocktails         |-> a.cocktails \ b.cocktails,
     ingredients       |-> a.ingredients \ b.ingredients,
     cocktail_images   |-> a.cocktail_images \ b.cocktail_images,
     ingredient_images |-> a.ingredient_images \ b.ingredient_images]

CountUnits(a) ==
    Cardinality(a.cocktails) + Cardinality(a.ingredients)
    + Cardinality(a.cocktail_images) + Cardinality(a.ingredient_images)

\* a with the unit of the stage added
WithUnit(a, st, unit) ==
    CASE st = "cocktails"         -> [a EXCEPT !.cocktails = @ \cup {unit}]
      [] st = "ingredients"       -> [a EXCEPT !.ingredients = @ \cup {unit}]
      [] st = "cocktail_images"   -> [a EXCEPT !.cocktail_images = @ \cup {unit}]
      [] st = "ingredient_images" -> [a EXCEPT !.ingredient_images = @ \cup {unit}]

NoCrash == [pc |-> "none", stage |-> "none", cocktail |-> NullId]
NoLookups == [id \in CocktailIds |-> 0]

\* no process: nothing in memory
NoProcess ==
    /\ pc = "stopped" /\ stage = "none" /\ progress = EmptyProgress
    /\ all_ids = {} /\ letter = 1 /\ all_cocktail_ids = <<>>
    /\ all_ingredients = <<>> /\ remaining = <<>>

\* a new data directory
EmptyDisk ==
    /\ cocktails = <<>> /\ cocktail_ingredients = <<>> /\ ingredients = <<>>
    /\ cocktail_image_files = {} /\ ingredient_image_files = {}
    /\ progress_file = NoFile
    /\ cocktails_json = NoExport /\ ingredients_json = NoExport

Init ==
    /\ EmptyDisk
    /\ NoProcess
    /\ loaded = EmptyProgress /\ lookups = NoLookups /\ got = {}
    /\ io = <<>> /\ expected = NoUnits /\ crash = NoCrash /\ lost = NoUnits
    /\ began = 0
    /\ faults = 0
    /\ plan = <<>> /\ answers = <<>>

(***************************************************************************)
(* The process: main, CocktailScraper.__init__, setup, run, cleanup        *)
(***************************************************************************)
\* a request that is issued without the delay before it
RequestNoDelay == <<"get">>

\* the delay and the request of _fetch_json and of a download by _download_image
Request == <<"sleep", "get">>
\* the same when the request fails: the error is logged and the failure
\* sentinel returned
RequestFailed == <<"sleep", "get", "error">>

\* what a fetch that gave data did
Fetched(data) == IF data = None THEN RequestFailed ELSE Request

\* a fetch fails, a record comes without its name, or the process is killed
Fault == faults < MaxFaults /\ faults' = faults + 1

\* memory is gone when the process ends
Forget ==
    /\ pc' = "stopped" /\ stage' = "none" /\ progress' = EmptyProgress
    /\ all_ids' = {} /\ letter' = 1 /\ all_cocktail_ids' = <<>>
    /\ all_ingredients' = <<>> /\ remaining' = <<>>
    /\ loaded' = EmptyProgress /\ lookups' = NoLookups /\ got' = {}
    /\ io' = <<>> /\ lost' = NoUnits /\ began' = 0

\* a download that records the unit in the ledger whatever its outcome
ContinueRecorded(with_io) ==
    /\ remaining' = Tail(remaining)
    /\ io' = with_io
    /\ progress' = AppendUnit(progress, stage, Head(remaining))
    /\ UNCHANGED <<pc, stage>>

\* the loop of the stage goes on to its next unit
Continue(with_io) ==
    /\ remaining' = Tail(remaining)
    /\ io' = with_io
    /\ UNCHANGED <<pc, stage, progress>>

\* an exception leaves run: __aexit__ calls cleanup
Raise ==
    /\ pc' = "cleanup" /\ stage' = "aborted" /\ io' = Request
    /\ UNCHANGED <<progress, remaining>>

\* main: CocktailScraper() loads the ledger, setup creates the directories
\* and the tables that do not exist yet, run begins the enumeration
Start ==
    /\ pc = "stopped"
    /\ progress' = load(progress_file)
    /\ loaded' = load(progress_file)
    /\ lost' = UnitsMinus(expected, UnitsOf(load(progress_file)))
    /\ expected' = NoUnits
    /\ pc' = "discover" /\ stage' = "discover"
    /\ all_ids' = {} /\ letter' = 1
    /\ lookups' = NoLookups /\ got' = {} /\ io' = <<>>
    /\ began' = faults
    /\ UNCHANGED <<disk, all_cocktail_ids, all_ingredients, remaining, crash,
                   faults, inputs>>

\* an enumeration that returns after the search of one symbol
SearchOnce(data) ==
    /\ pc = "discover"
    /\ IF data = None THEN Fault ELSE UNCHANGED faults
    /\ all_ids' = AddIds(all_ids, data)
    /\ io' = Fetched(data)
    /\ all_cocktail_ids' = sorted_ids(all_ids')
    /\ remaining' = NotIn(all_cocktail_ids', progress.cocktails_downloaded)
    /\ pc' = "unit" /\ stage' = "cocktails"
    /\ UNCHANGED letter
    /\ UNCHANGED <<disk, progress, all_ingredients, history, inputs>>

\* get_all_cocktail_ids: one search per symbol; after the last one the
\* sorted ids are returned and run computes the backlog of stage 2
Search(data) ==
    /\ pc = "discover"
    /\ IF data = None THEN Fault ELSE UNCHANGED faults
    /\ all_ids' = AddIds(all_ids, data)
    /\ io' = Fetched(data)
    /\ IF letter < NumSymbols
       THEN /\ letter' = letter + 1
            /\ UNCHANGED <<pc, stage, all_cocktail_ids, remaining>>
       ELSE /\ all_cocktail_ids' = sorted_ids(all_ids')
            /\ remaining' = NotIn(all_cocktail_ids', progress.cocktails_downloaded)
            /\ pc' = "unit" /\ stage' = "cocktails"
            /\ UNCHANGED letter
    /\ UNCHANGED <<disk, progress, all_ingredients, history, inputs>>

\* download_cocktail up to and including self.db_conn.commit()
DownloadCocktail(data) ==
    /\ pc = "unit" /\ stage = "cocktails" /\ remaining # <<>>
    /\ LET cocktail_id == Head(remaining)
           db == StoreCocktail(DB, cocktail_id, data)
       IN IF InList(cocktail_id, progress.cocktails_downloaded)
          THEN /\ Continue(<<>>)
               /\ UNCHANGED <<store, lookups, got, faults>>
          ELSE /\ lookups' = [lookups EXCEPT ![cocktail_id] = @ + 1]
               /\ IF data \in {None, NoRecords}
                  THEN /\ Fault
                       /\ Continue(Fetched(data))
                       /\ UNCHANGED <<store, got>>
                  ELSE IF data.strDrink = Null
                  THEN \* name TEXT NOT NULL: sqlite3.IntegrityError
                       /\ Fault
                       /\ Raise
                       /\ UNCHANGED <<store, got>>
                  ELSE /\ cocktails' = db.cocktails
                       /\ cocktail_ingredients' = db.cocktail_ingredients
                       /\ got' = got \cup {cocktail_id}
                       /\ pc' = "committed" /\ io' = Request
                       /\ UNCHANGED <<ingredients, stage, progress, remaining, faults>>
    /\ UNCHANGED <<files, progress_file, exports, discovery, loaded,
                   expected, crash, lost, began, inputs>>

\* the tables after the first two statements of download_cocktail: the row
\* is written and the old line items are deleted, the new ones are not there
PartialCocktail(db, cocktail_id, drink) ==
    [cocktails |-> InsertOrReplace(db.cocktails, CocktailRow(drink)),
     cocktail_ingredients |-> DeleteIngredients(db.cocktail_ingredients, cocktail_id)]

\* a connection in autocommit mode: the statements that ran are in the file
CloseCommitted(db, written) == written

\* cleanup's self.db_conn.close() on an open transaction: the statements
\* that ran since the last commit are rolled back
Close(db, written) == db

\* download_cocktail when a statement after the first raises
\* (sqlite3.OperationalError: the file is locked, the disk is full): the
\* exception leaves run with the transaction open
DownloadCocktailFails(data) ==
    /\ pc = "unit" /\ stage = "cocktails" /\ remaining # <<>>
    /\ ~InList(Head(remaining), progress.cocktails_downloaded)
    /\ data \notin {None, NoRecords}
    /\ data.strDrink # Null
    /\ lookups' = [lookups EXCEPT ![Head(remaining)] = @ + 1]
    /\ Fault
    /\ Raise
    /\ LET db == Close(DB, PartialCocktail(DB, Head(remaining), data))
       IN /\ cocktails' = db.cocktails
          /\ cocktail_ingredients' = db.cocktail_ingredients
    /\ UNCHANGED <<ingredients, got, files, progress_file, exports, discovery,
                   loaded, expected, crash, lost, began, inputs>>

\* get_all_ingredients and the backlog of stage 3
ListIngredients(data) ==
    /\ pc = "list"
    /\ IF data = None THEN Fault ELSE UNCHANGED faults
    /\ all_ingredients' = get_all_ingredients(data)
    /\ remaining' = NotIn(all_ingredients', progress.ingredients_downloaded)
    /\ pc' = "unit" /\ io' = Fetched(data)
    /\ UNCHANGED <<disk, stage, progress, all_ids, letter, all_cocktail_ids,
                   history, inputs>>

\* download_ingredient up to and including self.db_conn.commit()
DownloadIngredient(data) ==
    /\ pc = "unit" /\ stage = "ingredients" /\ remaining # <<>>
    /\ LET ingredient_name == Head(remaining)
       IN IF InList(ingredient_name, progress.ingredients_downloaded)
          THEN /\ Continue(<<>>)
               /\ UNCHANGED <<ingredients, faults>>
          ELSE IF data \in {None, NoRecords}
          THEN /\ Fault
               /\ Continue(Fetched(data))
               /\ UNCHANGED ingredients
          ELSE IF data.strIngredient = Null
          THEN \* name TEXT NOT NULL: sqlite3.IntegrityError
               /\ Fault
               /\ Raise
               /\ UNCHANGED ingredients
          ELSE /\ ingredients' = InsertOrReplace(ingredients,
                                                 IngredientRow(data, ingredient_name))
               /\ pc' = "committed" /\ io' = Request
               /\ UNCHANGED <<stage, progress, remaining, faults>>
    /\ UNCHANGED <<cocktails, cocktail_ingredients, files, progress_file, exports,
                   discovery, history, inputs>>

\* download_cocktail_image up to the return of _download_image
DownloadCocktailImage(outcome) ==
    /\ pc = "unit" /\ stage = "cocktail_images" /\ remaining # <<>>
    /\ LET cocktail_id == Head(remaining)
           row == SelectSeq(cocktails, LAMBDA r : r.id = cocktail_id)
       IN IF InList(cocktail_id, progress.cocktail_images_downloaded)
          THEN /\ outcome = "none"
               /\ Continue(<<>>)
               /\ UNCHANGED <<cocktail_image_files, faults>>
          ELSE IF row = <<>> \/ ~Truthy(row[1].image_url)
          THEN /\ outcome = "none"
               /\ Continue(<<>>)
               /\ UNCHANGED <<cocktail_image_files, faults>>
          ELSE /\ outcome \in ImageOutcomes(cocktail_id \in cocktail_image_files)
               /\ IF outcome = "failed"
                  THEN /\ Fault
                       /\ Continue(RequestFailed)
                       /\ UNCHANGED cocktail_image_files
                  ELSE /\ cocktail_image_files' = cocktail_image_files \cup {cocktail_id}
                       /\ io' = IF outcome = "exists" THEN <<>> ELSE Request
                       /\ pc' = "fetched"
                       /\ UNCHANGED <<stage, progress, remaining, faults>>
    /\ UNCHANGED <<store, ingredient_image_files, progress_file, exports,
                   discovery, history, inputs>>

\* download_cocktail_image: the UPDATE of the row and its commit
UpdateCocktailImage ==
    /\ pc = "fetched" /\ stage = "cocktail_images"
    /\ cocktails' = UpdateCocktailPath(cocktails, Head(remaining))
    /\ pc' = "committed" /\ io' = <<>>
    /\ UNCHANGED <<cocktail_ingredients, ingredients, files, progress_file, exports,
                   stage, progress, discovery, remaining, history, faults, inputs>>

\* download_ingredient_image up to the return of _download_image
DownloadIngredientImage(outcome) ==
    /\ pc = "unit" /\ stage = "ingredient_images" /\ remaining # <<>>
    /\ LET ingredient_name == Head(remaining)
           file == safe_filename(ingredient_name)
       IN IF InList(ingredient_name, progress.ingredient_images_downloaded)
          THEN /\ outcome = "none"
               /\ Continue(<<>>)
               /\ UNCHANGED <<ingredient_image_files, faults>>
          ELSE /\ outcome \in ImageOutcomes(file \in ingredient_image_files)
               /\ IF outcome = "failed"
                  THEN /\ Fault
                       /\ Continue(RequestFailed)
                       /\ UNCHANGED ingredient_image_files
                  ELSE /\ ingredient_image_files' = ingredient_image_files \cup {file}
                       /\ io' = IF outcome = "exists" THEN <<>> ELSE Request
                       /\ pc' = "fetched"
                       /\ UNCHANGED <<stage, progress, remaining, faults>>
    /\ UNCHANGED <<store, cocktail_image_files, progress_file, exports,
                   discovery, history, inputs>>

\* download_ingredient_image: the UPDATE of the row and its commit
UpdateIngredientImage ==
    /\ pc = "fetched" /\ stage = "ingredient_images"
    /\ ingredients' = UpdateIngredientPath(ingredients, Head(remaining))
    /\ pc' = "committed" /\ io' = <<>>
    /\ UNCHANGED <<cocktails, cocktail_ingredients, files, progress_file, exports,
                   stage, progress, discovery, remaining, history, faults, inputs>>

\* the append to the ledger's list, and ScraperProgress.save up to
\* open(PROGRESS_FILE, "w"), which empties the file
AppendAndOpen ==
    /\ pc = "committed"
    /\ progress' = AppendUnit(progress, stage, Head(remaining))
    /\ progress_file' = Truncated
    /\ pc' = "saving" /\ io' = <<>>
    /\ UNCHANGED <<store, files, exports, stage, discovery, remaining, history,
                   faults, inputs>>

\* ScraperProgress.save: json.dump and the close of the file; the download
\* returns True and the loop goes on
Flush ==
    /\ pc = "saving"
    /\ progress_file' = Written(progress)
    /\ pc' = "unit" /\ io' = <<>>
    /\ remaining' = Tail(remaining)
    /\ UNCHANGED <<store, files, exports, stage, progress, discovery, history,
                   faults, inputs>>

\* run leaving the loop of a stage after its first unit
NextStageEarly ==
    /\ pc = "unit"
    /\ io' = <<>>
    /\ IF stage = "cocktails"
       THEN /\ pc' = "list" /\ stage' = "ingredients"
            /\ remaining' = <<>>
       ELSE IF stage = "ingredients"
       THEN /\ stage' = "cocktail_images"
            /\ remaining' = NotIn(all_cocktail_ids, progress.cocktail_images_downloaded)
            /\ UNCHANGED pc
       ELSE IF stage = "cocktail_images"
       THEN /\ stage' = "ingredient_images"
            /\ remaining' = NotIn(all_ingredients, progress.ingredient_images_downloaded)
            /\ UNCHANGED pc
       ELSE /\ pc' = "export" /\ stage' = "export"
            /\ remaining' = <<>>
    /\ UNCHANGED <<disk, progress, discovery, history, faults, inputs>>

\* run: the loop of a stage is over; the backlog of the next one
NextStage ==
    /\ pc = "unit" /\ remaining = <<>>
    /\ io' = <<>>
    /\ IF stage = "cocktails"
       THEN /\ pc' = "list" /\ stage' = "ingredients"
            /\ UNCHANGED remaining
       ELSE IF stage = "ingredients"
       THEN /\ stage' = "cocktail_images"
            /\ remaining' = NotIn(all_cocktail_ids, progress.cocktail_images_downloaded)
            /\ UNCHANGED pc
       ELSE IF stage = "cocktail_images"
       THEN /\ stage' = "ingredient_images"
            /\ remaining' = NotIn(all_ingredients, progress.ingredient_images_downloaded)
            /\ UNCHANGED pc
       ELSE /\ pc' = "export" /\ stage' = "export"
            /\ UNCHANGED remaining
    /\ UNCHANGED <<disk, progress, discovery, history, faults, inputs>>

\* an export that opens cocktails.json for appending: the objects of the
\* store are added to the document that is there
WriteCocktailsJsonIncremental ==
    /\ pc = "export"
    /\ cocktails_json' = Exported(cocktails_json.doc \o ExportCocktails(DB))
    /\ pc' = "export_ingredients" /\ io' = <<>>
    /\ UNCHANGED <<store, files, progress_file, ingredients_json, stage, progress,
                   discovery, remaining, history, faults, inputs>>

\* export_to_json: cocktails.json
WriteCocktailsJson ==
    /\ pc = "export"
    /\ cocktails_json' = Exported(ExportCocktails(DB))
    /\ pc' = "export_ingredients" /\ io' = <<>>
    /\ UNCHANGED <<store, files, progress_file, ingredients_json, stage, progress,
                   discovery, remaining, history, faults, inputs>>

\* run returning to cleanup without the second dump of export_to_json
WriteIngredientsJsonSkipped ==
    /\ pc = "export_ingredients"
    /\ pc' = "cleanup" /\ stage' = "cleanup" /\ io' = <<>>
    /\ UNCHANGED <<disk, progress, discovery, remaining, history, faults, inputs>>

\* export_to_json: ingredients.json; run returns and __aexit__ calls cleanup
WriteIngredientsJson ==
    /\ pc = "export_ingredients"
    /\ ingredients_json' = Exported(ExportIngredients(ingredients))
    /\ pc' = "cleanup" /\ stage' = "cleanup" /\ io' = <<>>
    /\ UNCHANGED <<store, files, progress_file, cocktails_json, progress,
                   discovery, remaining, history, faults, inputs>>

\* cleanup: the session and the connection are closed, self.progress.save()
\* opens the ledger file for writing
CleanupOpen ==
    /\ pc = "cleanup"
    /\ progress_file' = Truncated
    /\ pc' = "closing" /\ io' = <<>>
    /\ UNCHANGED <<store, files, exports, stage, progress, discovery, remaining,
                   history, faults, inputs>>

\* a cleanup that runs only when run returns: after an exception the ledger
\* file is left as it is
ExitNormalOnly ==
    /\ pc = "closing"
    /\ progress_file' = IF stage = "aborted" THEN progress_file ELSE Written(progress)
    /\ expected' = UnitsOf(progress)
    /\ crash' = NoCrash
    /\ Forget
    /\ UNCHANGED <<store, files, exports, faults, inputs>>

\* cleanup: the ledger file is written and the process ends
Exit ==
    /\ pc = "closing"
    /\ progress_file' = Written(progress)
    /\ expected' = UnitsOf(progress)
    /\ crash' = NoCrash
    /\ Forget
    /\ UNCHANGED <<store, files, exports, faults, inputs>>

\* the process is killed: the disk stays as it is
Crash ==
    /\ pc \in {"discover", "unit", "list", "fetched", "committed", "saving",
               "export", "export_ingredients", "cleanup", "closing"}
    /\ Fault
    /\ expected' = IF pc = "committed"
                   THEN WithUnit(UnitsOf(progress), stage, Head(remaining))
                   ELSE UnitsOf(progress)
    /\ crash' = IF stage = "cocktails" /\ pc \in {"committed", "saving"}
                THEN [pc |-> pc, stage |-> stage, cocktail |-> Head(remaining)]
                ELSE NoCrash
    /\ Forget
    /\ UNCHANGED <<disk, inputs>>

\* get_all_cocktail_ids searches the next symbol: the API answers or fails
search ==
    \E data \in {None, Catalog(letter)} : Search(data)

\* download_cocktail on the next id of the backlog, for every answer
download_cocktail ==
    /\ pc = "unit" /\ stage = "cocktails" /\ remaining # <<>>
    /\ \E data \in LookupResponses(Head(remaining)) :
          DownloadCocktail(data) \/ DownloadCocktailFails(data)

\* get_all_ingredients: the API answers or fails
list_ingredients ==
    \E data \in {None, Listing} : ListIngredients(data)

\* download_ingredient on the next name of the backlog, for every answer
download_ingredient ==
    /\ pc = "unit" /\ stage = "ingredients" /\ remaining # <<>>
    /\ \E data \in IngredientResponses(Head(remaining)) : DownloadIngredient(data)

ImageResults == {"none", "exists", "downloaded", "failed"}

Next ==
    \/ Start
    \/ search
    \/ download_cocktail
    \/ list_ingredients
    \/ download_ingredient
    \/ \E outcome \in ImageResults : DownloadCocktailImage(outcome)
    \/ UpdateCocktailImage
    \/ \E outcome \in ImageResults : DownloadIngredientImage(outcome)
    \/ UpdateIngredientImage
    \/ AppendAndOpen
    \/ Flush
    \/ NextStage
    \/ WriteCocktailsJson
    \/ WriteIngredientsJson
    \/ CleanupOpen
    \/ Exit
    \/ Crash

Spec == Init /\ [][Next]_vars

(***************************************************************************)
(* The process on the disk a killed first run leaves: the row and the line *)
(* item of cocktail 1 are committed, the process was killed before the     *)
(* append to the ledger, and no ledger file was ever written               *)
(***************************************************************************)
InitRedo ==
    /\ LET db == StoreCocktail([cocktails |-> <<>>, cocktail_ingredients |-> <<>>],
                               1, Drink(1, DrinkName, ThumbUrl, SlotsOne))
       IN /\ cocktails = db.cocktails
          /\ cocktail_ingredients = db.cocktail_ingredients
    /\ ingredients = <<>>
    /\ cocktail_image_files = {} /\ ingredient_image_files = {}
    /\ progress_file = NoFile
    /\ cocktails_json = NoExport /\ ingredients_json = NoExport
    /\ NoProcess
    /\ loaded = EmptyProgress /\ lookups = NoLookups /\ got = {}
    /\ io = <<>> /\ lost = NoUnits /\ began = 0
    /\ expected = WithUnit(NoUnits, "cocktails", 1)
    /\ crash = [pc |-> "committed", stage |-> "cocktails", cocktail |-> 1]
    /\ faults = 0
    /\ plan = <<>> /\ answers = <<>>

SpecRedo == InitRedo /\ [][Next]_vars

(***************************************************************************)
(* The record store and the exporter on every filling of the slots: a      *)
(* download of cocktail 1 into an empty store, a second download of the    *)
(* same cocktail or of cocktail 2, then the export                         *)
(***************************************************************************)
InitStore ==
    /\ EmptyDisk
    /\ pc = "store" /\ stage = "none" /\ progress = EmptyProgress
    /\ all_ids = {} /\ letter = 1 /\ all_cocktail_ids = <<>>
    /\ all_ingredients = <<>>
    /\ loaded = EmptyProgress /\ lookups = NoLookups /\ got = {}
    /\ io = <<>> /\ expected = NoUnits /\ crash = NoCrash /\ lost = NoUnits
    /\ began = 0
    /\ faults = 0
    /\ \E x \in {1, 2} :
         \E d1 \in StoreDrinks(1), d2 \in StoreDrinks(x) :
            plan = << <<1, d1>>, <<x, d2>> >>
    /\ remaining = plan
    /\ answers = <<>>

\* download_cocktail's statements and commit for the next download of the plan
StoreDownload ==
    /\ pc = "store" /\ remaining # <<>>
    /\ LET db == StoreCocktail(DB, Head(remaining)[1], Head(remaining)[2])
       IN /\ cocktails' = db.cocktails
          /\ cocktail_ingredients' = db.cocktail_ingredients
    /\ remaining' = Tail(remaining)
    /\ UNCHANGED <<ingredients, files, progress_file, exports, pc, stage, progress,
                   discovery, history, io, faults, inputs>>

\* export_to_json: cocktails.json
StoreExport ==
    /\ pc = "store" /\ remaining = <<>>
    /\ cocktails_json' = Exported(ExportCocktails(DB))
    /\ pc' = "exported"
    /\ UNCHANGED <<store, files, progress_file, ingredients_json, stage, progress,
                   discovery, remaining, history, io, faults, inputs>>

NextStore == StoreDownload \/ StoreExport

SpecStore == InitStore /\ [][NextStore]_vars

(***************************************************************************)
(* The record store on every drink the lookup of an id can answer with:    *)
(* data["drinks"][0] is stored as it is, whatever its idDrink              *)
(***************************************************************************)
InitLookup ==
    /\ EmptyDisk
    /\ pc = "store" /\ stage = "none" /\ progress = EmptyProgress
    /\ all_ids = {} /\ letter = 1 /\ all_cocktail_ids = <<>>
    /\ all_ingredients = <<>>
    /\ loaded = EmptyProgress /\ lookups = NoLookups /\ got = {}
    /\ io = <<>> /\ expected = NoUnits /\ crash = NoCrash /\ lost = NoUnits
    /\ began = 0
    /\ faults = 0
    /\ \E cocktail_id \in CocktailIds, id \in CocktailIds :
         \E drink \in StoreDrinks(id) : plan = << <<cocktail_id, drink>> >>
    /\ remaining = plan
    /\ answers = <<>>

SpecLookup == InitLookup /\ [][NextStore]_vars

(***************************************************************************)
(* The transaction of download_cocktail statement by statement: a first    *)
(* revision of cocktail 1 is stored, then every second revision; the       *)
(* process may be killed between two statements.  cocktails and            *)
(* cocktail_ingredients are the tables as the file has them committed      *)
(***************************************************************************)
\* the revisions of cocktail 1 stored first
FirstRevisions ==
    { Drink(1, DrinkName, ThumbUrl, SlotsOne), Drink(1, DrinkName, Null, SlotsTwo) }

InitTxn ==
    /\ EmptyDisk
    /\ pc = "store" /\ stage = "none" /\ progress = EmptyProgress
    /\ all_ids = {} /\ letter = 1 /\ all_cocktail_ids = <<>>
    /\ all_ingredients = <<>>
    /\ loaded = EmptyProgress /\ lookups = NoLookups /\ got = {}
    /\ io = <<>> /\ expected = NoUnits /\ crash = NoCrash /\ lost = NoUnits
    /\ began = 0
    /\ faults = 0
    /\ \E d1 \in FirstRevisions, d2 \in StoreDrinks(1) :
          plan = << <<1, d1>>, <<1, d2>> >>
    /\ remaining = plan
    /\ answers = <<>>

\* a connection in autocommit mode: each statement is committed as it runs
ExecuteAutocommit(db, written) == written

\* cursor.execute of an INSERT or DELETE on the connection of
\* sqlite3.connect(DB_PATH): the statement runs in the transaction that the
\* first of them opened, and the committed tables stay as they are
Execute(db, written) == db

\* the tables as the connection has written them in its open transaction
Uncommitted(at) ==
    LET cocktail_id == Head(remaining)[1]
        drink       == Head(remaining)[2]
    IN CASE at = "row"     -> [cocktails |-> InsertOrReplace(cocktails, CocktailRow(drink)),
                               cocktail_ingredients |-> cocktail_ingredients]
         [] at = "deleted" -> PartialCocktail(DB, cocktail_id, drink)
         [] at = "items"   -> StoreCocktail(DB, cocktail_id, drink)
         [] OTHER          -> DB

\* one statement of the transaction: the place in download_cocktail moves
\* on, the committed tables are what Execute leaves of them
Statement(from, to) ==
    /\ pc = from /\ remaining # <<>>
    /\ pc' = to
    /\ LET db == Execute(DB, Uncommitted(to))
       IN /\ cocktails' = db.cocktails
          /\ cocktail_ingredients' = db.cocktail_ingredients
    /\ UNCHANGED <<ingredients, files, progress_file, exports, stage, progress,
                   discovery, remaining, history, io, faults, inputs>>

\* INSERT OR REPLACE INTO cocktails
TxnUpsert == Statement("store", "row")
\* DELETE FROM cocktail_ingredients WHERE cocktail_id = ?
TxnDelete == Statement("row", "deleted")
\* the loop of INSERT INTO cocktail_ingredients
TxnInsert == Statement("deleted", "items")

\* self.db_conn.commit()
TxnCommit ==
    /\ pc = "items"
    /\ cocktails' = Uncommitted(pc).cocktails
    /\ cocktail_ingredients' = Uncommitted(pc).cocktail_ingredients
    /\ pc' = "store" /\ remaining' = Tail(remaining)
    /\ UNCHANGED <<ingredients, files, progress_file, exports, stage, progress,
                   discovery, history, io, faults, inputs>>

\* the process is killed inside the transaction: the file keeps what was
\* committed, and the next process goes on with the plan
TxnCrash ==
    /\ pc \in {"row", "deleted", "items"}
    /\ pc' = "store" /\ remaining' = Tail(remaining)
    /\ UNCHANGED <<disk, stage, progress, discovery, history, io, faults, inputs>>

NextTxn == TxnUpsert \/ TxnDelete \/ TxnInsert \/ TxnCommit \/ TxnCrash

SpecTxn == InitTxn /\ [][NextTxn]_vars

(***************************************************************************)
(* The enumeration on every answer of the searches                         *)
(***************************************************************************)
\* the ledgers a run begins its enumeration with: empty, one cocktail done,
\* every cocktail done
EnumLedgers ==
    { [EmptyProgress EXCEPT !.cocktails_downloaded = q] :
         q \in {<<>>, <<1>>, SortedIds(CocktailIds)} }

InitEnum ==
    /\ EmptyDisk
    /\ pc = "enum" /\ stage = "none" /\ progress \in EnumLedgers
    /\ all_ids = {} /\ letter = 1 /\ all_cocktail_ids = <<>>
    /\ all_ingredients = <<>> /\ remaining = <<>>
    /\ loaded = progress /\ lookups = NoLookups /\ got = {}
    /\ io = <<>> /\ expected = NoUnits /\ crash = NoCrash /\ lost = NoUnits
    /\ began = 0
    /\ faults = 0
    /\ plan = <<>> /\ answers = <<>>

\* an enumeration that returns what it has when a search fails
EnumSearchStops(data) ==
    /\ pc = "enum"
    /\ all_ids' = AddIds(all_ids, data)
    /\ answers' = Append(answers, data)
    /\ IF letter < NumSymbols /\ data # None
       THEN /\ letter' = letter + 1
            /\ UNCHANGED <<pc, all_cocktail_ids>>
       ELSE /\ all_cocktail_ids' = sorted_ids(all_ids')
            /\ pc' = "enumerated"
            /\ UNCHANGED letter
    /\ UNCHANGED <<disk, stage, progress, all_ingredients, remaining, history, io,
                   faults, plan>>

\* get_all_cocktail_ids: the search of the next symbol, and the return after
\* the last one
EnumSearch(data) ==
    /\ pc = "enum"
    /\ all_ids' = AddIds(all_ids, data)
    /\ answers' = Append(answers, data)
    /\ IF letter < NumSymbols
       THEN /\ letter' = letter + 1
            /\ UNCHANGED <<pc, all_cocktail_ids>>
       ELSE /\ all_cocktail_ids' = sorted_ids(all_ids')
            /\ pc' = "enumerated"
            /\ UNCHANGED letter
    /\ UNCHANGED <<disk, stage, progress, all_ingredients, remaining, history, io,
                   faults, plan>>

NextEnum == \E data \in SearchResponses : EnumSearch(data)

SpecEnum == InitEnum /\ [][NextEnum]_vars

(***************************************************************************)
(* Properties of the enumeration (SpecEnum)                                *)
(***************************************************************************)
\* the idDrink values one search returned: none for a failed search, and a
\* drink without idDrink contributes none
ReturnedIds(data) == IF data = None THEN {} ELSE data.ids \ {NullId}

\* C6: get_all_cocktail_ids returns the ids the per-symbol searches returned,
\* all of them and no other, in strictly ascending order: an id that two or
\* more searches returned is in the result exactly once.
C6_EnumerationDedup ==
    pc = "enumerated" =>
        /\ Range(all_cocktail_ids) = UNION {ReturnedIds(answers[k]) : k \in DOMAIN answers}
        /\ \A i, j \in DOMAIN all_cocktail_ids :
              i < j => all_cocktail_ids[i] < all_cocktail_ids[j]

\* the enumeration has returned and two searches gave the same id
C6_Witness ==
    /\ pc = "enumerated"
    /\ \E i, j \in DOMAIN answers :
          i # j /\ ReturnedIds(answers[i]) \cap ReturnedIds(answers[j]) # {}

(***************************************************************************)
(* Properties of the record store and of the export (SpecStore)            *)
(***************************************************************************)
\* the slots of a drink that hold an ingredient: not null, not blank
FilledSlots(drink) ==
    {i \in Slots : drink.slots[i].ing # Null /\ strip(drink.slots[i].ing) # <<>>}

\* the cocktail id and the drink of the k-th download
PlanId(k) == plan[k][1]
PlanDrink(k) == plan[k][2]

\* C4: when download_cocktail has stored the same cocktail twice, the
\* rows of cocktail_ingredients of that cocktail are the line items of the
\* second record, one row each, in their order: none of the first record
\* remains and none is there twice.
C4_ChildrenReplaced ==
    (pc = "store" /\ remaining = <<>> /\ PlanId(1) = PlanId(2)) =>
        LET rows  == IngredientRowsOf(cocktail_ingredients, PlanId(2))
            items == ExtractIngredients(PlanDrink(2))
        IN /\ Len(rows) = Len(items)
           /\ \A k \in DOMAIN rows :
                 /\ rows[k].ingredient = items[k].ingredient
                 /\ rows[k].measure = items[k].measure
                 /\ rows[k].position = items[k].position

\* the same cocktail was stored twice, from records with different numbers
\* of ingredients
C4_Witness ==
    /\ pc = "store" /\ remaining = <<>> /\ PlanId(1) = PlanId(2)
    /\ Len(ExtractIngredients(PlanDrink(1))) > Len(ExtractIngredients(PlanDrink(2)))
    /\ Len(ExtractIngredients(PlanDrink(2))) > 0

\* C8: download_cocktail stores one line item for each slot that holds an
\* ingredient and none for a null or blank slot, and _get_ingredients, which
\* reads them by ascending position, gives the stripped ingredients in the
\* order of their slots.
C8_PositionOrder ==
    (pc = "store" /\ remaining = <<>>) =>
        LET filled == SortedIds(FilledSlots(PlanDrink(2)))
            rows   == IngredientRowsOf(cocktail_ingredients, PlanId(2))
            read   == get_ingredients(cocktail_ingredients, PlanId(2))
        IN /\ Len(rows) = Len(filled)
           /\ Len(read) = Len(filled)
           /\ \A k \in DOMAIN read :
                 read[k][1] = strip(PlanDrink(2).slots[filled[k]].ing)

\* a record with a blank slot between two slots that hold an ingredient was
\* stored
C8_Witness ==
    /\ pc = "store" /\ remaining = <<>>
    /\ \E i, j, k \in Slots :
          /\ i < j /\ j < k
          /\ {i, k} \subseteq FilledSlots(PlanDrink(2))
          /\ j \notin FilledSlots(PlanDrink(2))
          /\ PlanDrink(2).slots[j].ing # Null

\* the (ingredient, measure) pairs of the store's line items of a cocktail,
\* by ascending position
StoredPairs(cocktail_id) ==
    LET rows == OrderByPosition(IngredientRowsOf(cocktail_ingredients, cocktail_id))
    IN [k \in 1..Len(rows) |-> <<rows[k].ingredient, rows[k].measure>>]

\* the (ingredient, measure) pairs of the ingredients array of an object
ExportedPairs(object) ==
    [k \in 1..Len(object.ingredients) |->
        <<object.ingredients[k].ingredient, object.ingredients[k].measure>>]

\* C9: every object of cocktails.json whose cocktail has line items in the
\* store carries them in its ingredients array: the same (ingredient,
\* measure) pairs, in position order.
C9_SnapshotRoundTrip ==
    pc = "exported" =>
        \A k \in DOMAIN cocktails_json.doc :
            LET object == cocktails_json.doc[k]
            IN StoredPairs(object.id) # <<>> =>
                  /\ "ingredients" \in DOMAIN object
                  /\ ExportedPairs(object) = StoredPairs(object.id)

\* C10: cocktails.json has one object per row of cocktails, and every object
\* has an ingredients list, the object of a cocktail without line items too.
C10_EveryObjectHasIngredients ==
    pc = "exported" =>
        /\ Len(cocktails_json.doc) = Len(cocktails)
        /\ \A k \in DOMAIN cocktails_json.doc :
              "ingredients" \in DOMAIN cocktails_json.doc[k]

(***************************************************************************)
(* Properties of the run (Spec)                                            *)
(***************************************************************************)
\* the ids the enumeration of this run discovered, and the ids of the ledger
\* as the run loaded it
Discovered == Range(all_cocktail_ids)
LoadedCocktails == Range(loaded.cocktails_downloaded)

\* the loop of stage 2 is over and run goes on
AfterCocktails ==
    stage \in {"ingredients", "cocktail_images", "ingredient_images", "export"}

\* C1: a run issues no lookup for an id of the ledger it loaded and does not
\* write the store for it, and one lookup at most for any other id; when the
\* loop of stage 2 is over it has issued exactly one for each discovered id
\* that was not in the ledger, and the ledger holds the loaded ids and the ids
\* whose lookup gave a record.
C1_Resumability ==
    /\ \A id \in CocktailIds :
          /\ lookups[id] <= 1
          /\ id \in LoadedCocktails => (lookups[id] = 0 /\ id \notin got)
    /\ AfterCocktails =>
          /\ \A id \in CocktailIds :
                lookups[id] = (IF id \in Discovered \ LoadedCocktails THEN 1 ELSE 0)
          /\ got \subseteq Discovered \ LoadedCocktails
          /\ Range(progress.cocktails_downloaded) = LoadedCocktails \cup got
          /\ Len(progress.cocktails_downloaded) =
                Cardinality(Range(progress.cocktails_downloaded))

\* a run that loaded a ledger with some of the discovered ids has finished
\* stage 2 and has downloaded another
C1_Witness ==
    /\ AfterCocktails
    /\ LoadedCocktails # {} /\ LoadedCocktails \subseteq Discovered
    /\ got # {}

\* C1 as stated: when the loop of stage 2 is over the ledger holds the loaded
\* ids and every other discovered id.
C1_AllRemainingAppended ==
    AfterCocktails =>
        Range(progress.cocktails_downloaded) = LoadedCocktails \cup Discovered

\* C2: after the process was killed between the commit of cocktail X and the
\* end of the write of the ledger with X, the next run issues a lookup for
\* no cocktail committed before the kill other than X.
C2_OnlyTheUnitInFlight ==
    crash # NoCrash =>
        \A id \in lost.cocktails : lookups[id] > 0 => id = crash.cocktail

\* the same after a kill that came before save opened the ledger file: this
\* part of C2 holds
C2_KilledBeforeTheWrite ==
    (crash # NoCrash /\ crash.pc = "committed") =>
        /\ lost.cocktails \subseteq {crash.cocktail}
        /\ \A id \in lost.cocktails : lookups[id] > 0 => id = crash.cocktail

\* C3: the ledger a run loads lacks at most one of the units that the
\* process before it had committed to the store.
C3_AtMostOneUnitLost == CountUnits(lost) <= 1

\* C5: no two rows of cocktails have the same id.
C5_OneRowPerId ==
    \A i, j \in DOMAIN cocktails : i # j => cocktails[i].id # cocktails[j].id

\* a cocktail that has a row and an image from an earlier run was downloaded
\* and committed again
C5_Witness ==
    /\ stage = "cocktails" /\ pc = "committed"
    /\ Head(remaining) \in cocktail_image_files
    /\ Len(cocktails) = NumCocktails

\* the image file of the unit the loop of an image stage is at exists
TargetExists ==
    IF stage = "cocktail_images" THEN Head(remaining) \in cocktail_image_files
    ELSE safe_filename(Head(remaining)) \in ingredient_image_files

\* the store has a row with an image URL for the cocktail the loop is at;
\* an ingredient image needs no row
HasImageUrl ==
    stage = "cocktail_images" =>
        \E k \in DOMAIN cocktails :
            cocktails[k].id = Head(remaining) /\ Truthy(cocktails[k].image_url)

\* the step of a unit whose image file exists: no delay, no request, and
\* either the unit was in the ledger already or the download has succeeded
\* and goes on to record it
SkipsToSuccess ==
    /\ io' = <<>>
    /\ \/ /\ InList(Head(remaining), StageList(progress, stage))
          /\ pc' = "unit" /\ remaining' = Tail(remaining)
       \/ /\ pc' = "fetched" /\ UNCHANGED remaining

\* after the success of _download_image the row is updated, the unit is
\* appended to the list of the stage and the ledger is written, with no delay
\* and no request
RecordsTheUnit ==
    /\ pc = "fetched" => (pc' = "committed" /\ io' = <<>>)
    /\ pc = "committed" =>
          (pc' = "saving" /\ io' = <<>>
           /\ InList(Head(remaining), StageList(progress', stage)))
    /\ pc = "saving" =>
          (pc' = "unit" /\ io' = <<>> /\ progress_file' = Written(progress)
           /\ InList(Head(remaining), StageList(progress, stage)))

\* a step of an image stage in a process that is not killed at it
ImageStep == stage \in ImageStages /\ pc' # "stopped"

\* C7: when the image file of an image unit exists as the unit is processed,
\* and for a cocktail image the store has the cocktail's row with an image
\* URL, the unit takes no delay and no request, succeeds, and is recorded in
\* the images list of the ledger.
C7_SkipOnExists ==
    [][ImageStep =>
          /\ (pc = "unit" /\ remaining # <<>> /\ TargetExists /\ HasImageUrl)
                => SkipsToSuccess
          /\ RecordsTheUnit]_vars

\* a download found its image file on disk and succeeded without a request
C7_Witness ==
    /\ stage \in ImageStages /\ pc = "fetched" /\ io = <<>>
    /\ TargetExists

\* C7 as stated: whenever the image file of an image unit exists as the unit
\* is processed, the unit succeeds without delay or request and is recorded.
C7_SkipOnExistsAlways ==
    [][ImageStep =>
          /\ (pc = "unit" /\ remaining # <<>> /\ TargetExists) => SkipsToSuccess
          /\ RecordsTheUnit]_vars

(***************************************************************************)
(* Properties of the end of a run (Spec)                                   *)
(***************************************************************************)
\* both export files hold the documents of the store as it is
ExportsCurrent ==
    /\ cocktails_json = Exported(ExportCocktails(DB))
    /\ ingredients_json = Exported(ExportIngredients(ingredients))

\* the step a process that is not killed takes after its five stages, and
\* the one after it: cocktails.json is written, then ingredients.json
WritesTheExports ==
    /\ pc = "export" =>
          (pc' = "export_ingredients"
           /\ cocktails_json' = Exported(ExportCocktails(DB)))
    /\ pc = "export_ingredients" =>
          (pc' = "cleanup"
           /\ cocktails_json' = Exported(ExportCocktails(DB))
           /\ ingredients_json' = Exported(ExportIngredients(ingredients)))

\* C11: a run that has completed its five stages writes cocktails.json and
\* then ingredients.json as its next steps; from the export on it writes
\* neither the store nor the image files, and once the export files are
\* written the only write left is cleanup's rewrite of the ledger file, with
\* the four lists as they were.
C11_ExportsThenLedger ==
    [][/\ pc' # "stopped" => WritesTheExports
       /\ stage \in {"export", "cleanup"} => UNCHANGED <<store, files>>
       /\ stage = "cleanup" =>
             /\ ExportsCurrent /\ UNCHANGED exports
             /\ pc' # "stopped" => UNCHANGED progress
             /\ progress_file' \in {progress_file, Truncated, Written(progress)}]_vars

\* a run that downloaded cocktails and ingredients has written both export
\* files and is rewriting the ledger file
C11_Witness ==
    /\ stage = "cleanup" /\ pc = "closing"
    /\ ExportsCurrent
    /\ cocktails # <<>> /\ ingredients # <<>>
    /\ progress_file = Truncated

\* C11 as stated: once a run has written its export files it writes nothing
\* more to the disk.
C11_ExportsAreTheLastWrite ==
    [][stage = "cleanup" => UNCHANGED disk]_vars

(***************************************************************************)
(* Properties of the stages of a run (Spec)                                *)
(***************************************************************************)
\* the stages of run in their order
StageOrder ==
    <<"discover", "cocktails", "ingredients", "cocktail_images",
      "ingredient_images", "export", "cleanup">>

\* the place of a stage in the order
StageIndex(st) == CHOOSE k \in DOMAIN StageOrder : StageOrder[k] = st

\* a step inside a run: the process is neither started nor ended by it
InsideRun == pc # "stopped" /\ pc' # "stopped"

\* what a step does belongs to the stage the run is in: a lookup and a new
\* entry of a ledger list to the stage of that list, an image file to its
\* image stage, a row of ingredients to the ingredient stages
WorkOfTheStage ==
    /\ lookups' # lookups => stage = "cocktails"
    /\ progress'.cocktails_downloaded # progress.cocktails_downloaded
          => stage = "cocktails"
    /\ progress'.ingredients_downloaded # progress.ingredients_downloaded
          => stage = "ingredients"
    /\ progress'.cocktail_images_downloaded # progress.cocktail_images_downloaded
          => stage = "cocktail_images"
    /\ progress'.ingredient_images_downloaded # progress.ingredient_images_downloaded
          => stage = "ingredient_images"
    /\ cocktail_ingredients' # cocktail_ingredients => stage = "cocktails"
    /\ cocktails' # cocktails => stage \in {"cocktails", "cocktail_images"}
    /\ ingredients' # ingredients => stage \in {"ingredients", "ingredient_images"}
    /\ cocktail_image_files' # cocktail_image_files => stage = "cocktail_images"
    /\ ingredient_image_files' # ingredient_image_files => stage = "ingredient_images"

\* C12: within a run the stages follow one another in their order, one step
\* of the order at a time; the run leaves the loop of a stage for the next
\* stage only when no unit of its backlog is left, and every lookup, ledger
\* entry, row and image file is written in the stage it belongs to.
C12_StageOrdering ==
    [][InsideRun =>
          /\ stage' # stage =>
                \/ stage' = "aborted"
                \/ /\ StageIndex(stage') = StageIndex(stage) + 1
                   /\ remaining = <<>>
          /\ WorkOfTheStage]_vars

\* the last loop is at a unit after the three loops before it have each
\* recorded a unit
C12_Witness ==
    /\ stage = "ingredient_images" /\ pc = "unit" /\ remaining # <<>>
    /\ progress.cocktails_downloaded # <<>>
    /\ progress.ingredients_downloaded # <<>>
    /\ progress.cocktail_images_downloaded # <<>>

(***************************************************************************)
(* Properties of failures (Spec)                                           *)
(***************************************************************************)
\* the step of a unit whose fetch fails: the sentinel is returned
FetchFails == pc = "unit" /\ remaining # <<>> /\ io' = RequestFailed

\* the download returns False to the loop, which goes on to the next unit
\* of the stage; the store, the image files, the ledger and its file are as
\* they were
UnitSkipped ==
    /\ pc' = "unit" /\ stage' = stage /\ remaining' = Tail(remaining)
    /\ UNCHANGED <<store, files, progress, progress_file, exports>>

\* C13: when the fetch of a unit fails, the download of the unit changes
\* neither the store nor any list of the ledger nor the ledger file, no
\* exception leaves it, and the loop of the stage goes on to its next unit.
C13_TransportFailureSkips ==
    [][FetchFails => UnitSkipped]_vars

\* the fetch of a cocktail failed, nothing was stored or recorded for it,
\* and the loop is at the next cocktail
C13_Witness ==
    /\ stage = "cocktails" /\ pc = "unit" /\ io = RequestFailed
    /\ remaining # <<>>
    /\ lookups[1] = 1 /\ cocktails = <<>> /\ progress = EmptyProgress

(***************************************************************************)
(* Properties of the ledger file (Spec)                                    *)
(***************************************************************************)
\* the four sets of the ledger a process would load from the disk as it is
PersistedUnits == UnitsOf(load(progress_file))

\* C14: an identifier that is in a set of the ledger on disk is in that set
\* after every step, and in the ledger a starting run loads.
C14_LedgerAppendOnly ==
    [][/\ UnitsMinus(PersistedUnits, PersistedUnits') = NoUnits
       /\ (pc = "stopped" /\ pc' # "stopped") =>
             UnitsMinus(PersistedUnits, UnitsOf(loaded')) = NoUnits]_vars

(***************************************************************************)
(* Properties of the ingredients table (Spec)                              *)
(***************************************************************************)
\* the names of the rows of ingredients
IngredientRowNames == {ingredients[k].name : k \in DOMAIN ingredients}

\* C15: no two rows of ingredients have the same name, and every name in
\* ingredients_downloaded of the ledger of the running process is the name
\* of a row.
C15_OneRowPerName ==
    /\ \A i, j \in DOMAIN ingredients :
          i # j => ingredients[i].name # ingredients[j].name
    /\ pc \notin {"stopped", "discover"} =>
          Range(progress.ingredients_downloaded) \subseteq IngredientRowNames

(***************************************************************************)
(* Properties of the line items' owner (SpecLookup)                        *)
(***************************************************************************)
\* the ids of the rows of cocktails
CocktailRowIds == {cocktails[k].id : k \in DOMAIN cocktails}

\* C16: the cocktail_id of every row of cocktail_ingredients is the id of a
\* row of cocktails, whatever drink the lookup of the id answered with.
C16_LineItemsHaveACocktail ==
    \A k \in DOMAIN cocktail_ingredients :
        cocktail_ingredients[k].cocktail_id \in CocktailRowIds

(***************************************************************************)
(* Properties of the export as a reader (Spec)                             *)
(***************************************************************************)
\* a step of export_to_json
ExportReads == pc \in {"export", "export_ingredients"} /\ pc' # "stopped"

\* C17: a step of export_to_json changes no row of cocktails,
\* cocktail_ingredients or ingredients, no image file and none of the four
\* lists of the ledger, in memory or in its file; the document it writes is
\* the document of the store as it is, so that an export over export files
\* that are already those of the store leaves them as they are.
C17_ExportIsAPureRead ==
    [][ExportReads =>
          /\ UNCHANGED <<store, files, progress, progress_file>>
          /\ cocktails_json' \in {cocktails_json, Exported(ExportCocktails(DB))}
          /\ ingredients_json' \in
                {ingredients_json, Exported(ExportIngredients(ingredients))}
          /\ ExportsCurrent => UNCHANGED exports]_vars

\* a second run over a store and a ledger that an earlier run completed:
\* nothing was downloaded, and the export has written the same documents
C17_Witness ==
    /\ stage = "cleanup" /\ pc = "cleanup"
    /\ faults = 0
    /\ progress = loaded
    /\ cocktails # <<>> /\ ingredients # <<>>
    /\ ExportsCurrent

(***************************************************************************)
(* Properties of records that lack a field (Spec)                          *)
(***************************************************************************)
\* the step of a record unit whose fetch succeeds and whose answer is not
\* stored: the answer has no drinks or ingredients, or its record no name
DataShapeFails ==
    /\ pc = "unit" /\ stage \in {"cocktails", "ingredients"} /\ remaining # <<>>
    /\ io' = Request
    /\ pc' # "committed"

\* C18: when the fetch of a record unit succeeds and the answer lacks its
\* records or the record its name, the unit is skipped: the store, the
\* ledger and its file are as they were and the loop of the stage is at its
\* next unit.
C18_DataShapeFailureSkips ==
    [][DataShapeFails => UnitSkipped]_vars

\* the answers without records alone: the unit is skipped
C18_NoRecordsSkips ==
    [][DataShapeFails /\ stage' = stage => UnitSkipped]_vars

(***************************************************************************)
(* Properties of a failing store write (Spec)                              *)
(***************************************************************************)
\* C19: the step of a unit whose store write raises takes the run to
\* cleanup with the store, the ledger and the export files as they were;
\* from there the run looks up and downloads nothing more, writes neither
\* the store nor the export files, and cleanup writes the ledger without
\* the unit.
C19_PersistenceFailureAborts ==
    [][/\ (stage # "aborted" /\ stage' = "aborted") =>
             /\ pc' = "cleanup"
             /\ UNCHANGED <<store, files, exports, progress, progress_file>>
       /\ stage = "aborted" =>
             /\ pc' \in {"closing", "stopped"}
             /\ UNCHANGED <<store, files, exports>>
             /\ pc' # "stopped" => UNCHANGED <<progress, remaining, lookups>>
             /\ progress_file' \in {progress_file, Truncated, Written(progress)}]_vars

\* the second cocktail's line-item write has raised after the first
\* cocktail was stored and recorded: cleanup is rewriting the ledger with
\* the first cocktail alone, the second is still in the backlog and no
\* export file exists
C19_Witness ==
    /\ stage = "aborted" /\ pc = "closing"
    /\ progress.cocktails_downloaded = <<1>>
    /\ remaining = <<2>> /\ lookups[2] = 1
    /\ CocktailRowIds = {1}
    /\ exports = <<NoExport, NoExport>>

(***************************************************************************)
(* Properties of the positions of the line items (SpecStore)               *)
(***************************************************************************)
\* the positions of the line items of every cocktail increase in the order
\* of their insertion
PositionsIncrease ==
    \A cocktail_id \in CocktailIds :
        LET rows == IngredientRowsOf(cocktail_ingredients, cocktail_id)
        IN \A j, k \in DOMAIN rows : j < k => rows[j].position < rows[k].position

\* C20: the positions of the line items of a cocktail increase strictly in
\* the order of their insertion, and the position of a line item is the
\* number of the slot of the record it comes from: the k-th line item has
\* the number of the k-th slot that holds an ingredient.
C20_PositionsAreSlotNumbers ==
    /\ PositionsIncrease
    /\ (pc = "store" /\ remaining = <<>>) =>
          LET filled == SortedIds(FilledSlots(PlanDrink(2)))
              rows   == IngredientRowsOf(cocktail_ingredients, PlanId(2))
          IN /\ Len(rows) = Len(filled)
             /\ \A k \in DOMAIN rows : rows[k].position = filled[k]

\* a record with ingredients in the slots 1 and 3 alone was stored
C20_Witness ==
    /\ pc = "store" /\ remaining = <<>>
    /\ FilledSlots(PlanDrink(2)) = {1, 3}
    /\ Len(IngredientRowsOf(cocktail_ingredients, PlanId(2))) = 2

\* C20 as stated: the line items of every cocktail of the store, in the
\* order of their insertion, have the positions 1, 2, ..., N, N being their
\* number.
C20_PositionsOneToN ==
    \A cocktail_id \in CocktailIds :
        LET rows == IngredientRowsOf(cocktail_ingredients, cocktail_id)
        IN \A k \in DOMAIN rows : rows[k].position = k

(***************************************************************************)
(* Properties of the transaction of download_cocktail (SpecTxn)            *)
(***************************************************************************)
\* the line items download_cocktail writes for a drink, as rows
LineItemsOf(cocktail_id, drink) ==
    InsertIngredients(<<>>, cocktail_id, ExtractIngredients(drink))

\* C21: in the committed tables, whatever statement of download_cocktail
\* the process is at or was killed at, the line items of every cocktail
\* row are those of the record the row was written from, all of them and
\* no others.
C21_ReplaceIsAtomic ==
    \A k \in DOMAIN cocktails :
        IngredientRowsOf(cocktail_ingredients, cocktails[k].id)
            = LineItemsOf(cocktails[k].id, cocktails[k].raw_json)

\* the second revision's row is written and the old line items are deleted
\* in the open transaction, and the committed tables still hold the first
\* revision, whose line items differ
C21_Witness ==
    /\ pc = "deleted" /\ Len(remaining) = 1
    /\ cocktails # <<>>
    /\ cocktails[1].raw_json = plan[1][2]
    /\ LineItemsOf(1, plan[1][2]) # LineItemsOf(1, plan[2][2])
    /\ Uncommitted(pc).cocktail_ingredients = <<>>

(***************************************************************************)
(* Properties of the discovery (Spec)                                      *)
(***************************************************************************)
\* the run has its list of ingredient names: get_all_ingredients returned
ListingDone ==
    /\ stage \in {"ingredients", "cocktail_images", "ingredient_images",
                  "export", "cleanup"}
    /\ pc # "list"

\* every id the searches gave is in the ledger or was looked up in this run
BacklogOfCocktailsDone ==
    \A k \in DOMAIN all_cocktail_ids :
        \/ InList(all_cocktail_ids[k], progress.cocktails_downloaded)
        \/ lookups[all_cocktail_ids[k]] = 1

\* C22: in a run the searches go through the symbols one after the other
\* from the first, and the search of the last symbol is the step that
\* begins stage 2, so no cocktail record is fetched before all searches
\* are done; the listing of the ingredient names is requested after the
\* loop of stage 2 has gone through its backlog, and no ingredient record
\* is fetched before the listing has returned.
C22_DiscoveryBeforeRecords ==
    [][InsideRun =>
          /\ (pc = "discover" /\ pc' = "discover") => letter' = letter + 1
          /\ (stage # "cocktails" /\ stage' = "cocktails") =>
                (pc = "discover" /\ letter = NumSymbols /\ lookups = NoLookups)
          /\ lookups' # lookups => (stage = "cocktails" /\ pc = "unit")
          /\ pc = "list" =>
                (stage = "ingredients" /\ remaining = <<>> /\ BacklogOfCocktailsDone
                 /\ ingredients' = ingredients)
          /\ ingredients' # ingredients => ListingDone]_vars

\* the listing has returned names after both cocktails were looked up, and
\* the loop of stage 3 is at its first name
C22_Witness ==
    /\ stage = "ingredients" /\ pc = "unit"
    /\ remaining = all_ingredients /\ all_ingredients # <<>>
    /\ \A id \in CocktailIds : lookups[id] = 1

\* C22 as stated: a cocktail record is fetched only when the listing of the
\* ingredient names has returned.
C22_ListingBeforeRecords ==
    (pc # "stopped" /\ lookups # NoLookups) => ListingDone

(***************************************************************************)
(* Properties of the searches of the enumeration (SpecEnum)                *)
(***************************************************************************)
\* C23: whatever the ledger holds, get_all_cocktail_ids has searched each
\* symbol before the one it is at exactly once, goes on after a failed or
\* empty answer to the next symbol, and returns after one search per
\* symbol; a failed or empty answer adds no id, and all_ids is the union of
\* the ids of the answers so far.
C23_OneSearchPerSymbol ==
    /\ pc = "enum" => Len(answers) = letter - 1
    /\ pc = "enumerated" => Len(answers) = NumSymbols
    /\ all_ids = UNION {ReturnedIds(answers[k]) : k \in DOMAIN answers}
    /\ pc = "enumerated" => Range(all_cocktail_ids) = all_ids

\* the enumeration of a run whose ledger holds every cocktail has returned
\* ids after a failed search and an empty one
C23_Witness ==
    /\ pc = "enumerated"
    /\ progress.cocktails_downloaded = SortedIds(CocktailIds)
    /\ answers[1] = None
    /\ answers[2] = [kind |-> "drinks", ids |-> {}]
    /\ all_cocktail_ids # <<>>

(***************************************************************************)
(* Properties of the image stages' use of the store (Spec)                 *)
(***************************************************************************)
\* C24: in stage 4 the step of a cocktail that has no row, or whose row has
\* no image URL, makes no request, writes no file, leaves the store, the
\* ledger and its file as they were and goes on to the next unit; and a
\* step that adds a cocktail to cocktail_images_downloaded adds the
\* cocktail the loop is at, whose image file exists and whose row already
\* has the path of that file as image_local_path.
C24_ImageNeedsTheRow ==
    [][(stage = "cocktail_images" /\ pc' # "stopped") =>
          /\ (pc = "unit" /\ remaining # <<>> /\ ~HasImageUrl) =>
                /\ io' = <<>>
                /\ pc' = "unit" /\ remaining' = Tail(remaining)
                /\ UNCHANGED <<store, files, progress, progress_file>>
          /\ progress'.cocktail_images_downloaded # progress.cocktail_images_downloaded =>
                /\ progress'.cocktail_images_downloaded
                      = Append(progress.cocktail_images_downloaded, Head(remaining))
                /\ Head(remaining) \in cocktail_image_files
                /\ \E k \in DOMAIN cocktails :
                      /\ cocktails[k].id = Head(remaining)
                      /\ Truthy(cocktails[k].image_url)
                      /\ cocktails[k].image_local_path
                            = <<"c", "/">> \o <<Head(remaining)>>]_vars

\* stage 4 has passed cocktail 1, which has no row, and has recorded the
\* image of cocktail 2
C24_Witness ==
    /\ stage = "cocktail_images" /\ pc = "unit"
    /\ all_cocktail_ids = <<1, 2>> /\ remaining = <<>>
    /\ CocktailRowIds = {2}
    /\ progress.cocktail_images_downloaded = <<2>>
    /\ cocktail_image_files = {2}

\* C25: in stage 5 a step that adds a name to ingredient_images_downloaded
\* adds a name that has a row in ingredients, and that row has the path of
\* the image file as image_local_path; no image file is written for a name
\* without a row.
C25_IngredientImageNeedsTheRow ==
    [][(stage = "ingredient_images" /\ pc' # "stopped") =>
          /\ progress'.ingredient_images_downloaded
                # progress.ingredient_images_downloaded =>
                \E k \in DOMAIN ingredients :
                    /\ ingredients[k].name = Head(remaining)
                    /\ ingredients[k].image_local_path
                          = <<"i", "/">> \o safe_filename(Head(remaining))
          /\ ingredient_image_files' # ingredient_image_files =>
                Head(remaining) \in IngredientRowNames]_vars

(***************************************************************************)
(* Properties of the order of the store and the ledger (Spec)              *)
(***************************************************************************)
\* C26: every id in cocktails_downloaded of the ledger file is the id of a
\* row of cocktails, and every name in ingredients_downloaded of the ledger
\* file is the name of a row of ingredients.
C26_StoreBeforeLedger ==
    /\ PersistedUnits.cocktails \subseteq CocktailRowIds
    /\ PersistedUnits.ingredients \subseteq IngredientRowNames

\* the ids of the ledger, in the file and in memory, are ids of rows of
\* cocktails: the row is committed before the id is appended
C26_CocktailsCommittedFirst ==
    /\ PersistedUnits.cocktails \subseteq CocktailRowIds
    /\ Range(progress.cocktails_downloaded) \subseteq CocktailRowIds

(***************************************************************************)
(* Properties of the attempts of a unit within a run (Spec)                *)
(***************************************************************************)
\* the step of a unit that makes its request
FetchAttempt ==
    pc = "unit" /\ remaining # <<>> /\ io' \in {Request, RequestFailed}

\* C27: within a run a unit is requested at most once: a request is made
\* only for a unit that is not in the ledger, a unit whose request did not
\* lead to its record being stored is not in the rest of the backlog of the
\* stage, and a unit whose request succeeded is in the ledger before the
\* loop goes on, with no further request on the way.
C27_NoRetry ==
    [][(pc' # "stopped" /\ stage \in {"cocktails", "ingredients"} \cup ImageStages) =>
          /\ FetchAttempt => ~InList(Head(remaining), StageList(progress, stage))
          /\ (FetchAttempt /\ pc' = "unit") => ~InList(Head(remaining), remaining')
          /\ pc \in {"fetched", "committed", "saving"} => io' = <<>>
          /\ (pc = "saving" /\ pc' = "unit") =>
                InList(Head(remaining), StageList(progress, stage))]_vars

\* no cocktail is looked up twice in a run
C27_OneLookupPerCocktail ==
    \A id \in CocktailIds : lookups[id] <= 1

(***************************************************************************)
(* Properties of the retry by the next run (Spec)                          *)
(***************************************************************************)
\* the universe of a stage: the ids or the names the run discovered
UniverseOf(st) ==
    IF st \in {"cocktails", "cocktail_images"} THEN all_cocktail_ids
    ELSE all_ingredients

\* the backlog the run computed for the stage it is in
Backlog == NotIn(UniverseOf(stage), StageList(loaded, stage))

\* the units of the backlog that the loop of the stage has passed
ProcessedBefore == SubSeq(Backlog, 1, Len(Backlog) - Len(remaining))

\* C28: a unit that the loop of a stage has passed without recording it,
\* its fetch having failed, is not added to the ledger later in the same
\* run, so that it is in the backlog of the next run.
C28_FailedUnitIsDeferred ==
    [][(stage \in {"cocktails", "ingredients"} \cup ImageStages
        /\ pc = "committed" /\ pc' = "saving") =>
            ~InList(Head(remaining), ProcessedBefore)]_vars

\* the backlog of every stage is the discovered units that are not in the
\* ledger, in their order; the unit in flight when the process before was
\* killed is not in the ledger the run loaded; and a unit whose record was
\* fetched and committed is in the ledger at the next step and in the
\* ledger file at the one after
C28_BacklogAndProgress ==
    [][InsideRun =>
          /\ (stage' # stage /\ stage' \in {"cocktails", "cocktail_images",
                                            "ingredient_images"}) =>
                remaining' = NotIn(UniverseOf(stage)', StageList(progress, stage'))
          /\ (pc = "list" /\ pc' = "unit") =>
                remaining' = NotIn(all_ingredients', progress.ingredients_downloaded)
          /\ crash # NoCrash => crash.cocktail \notin LoadedCocktails
          /\ pc = "committed" =>
                (pc' = "saving"
                 /\ InList(Head(remaining), StageList(progress', stage)))
          /\ pc = "saving" =>
                (pc' = "unit" /\ progress_file' = Written(progress)
                 /\ InList(Head(remaining), StageList(progress, stage)))]_vars

(***************************************************************************)
(* Properties of the key of a line item (SpecStore)                        *)
(***************************************************************************)
\* C29: no two rows of cocktail_ingredients have the same cocktail_id and
\* position, and the translation's UPDATE for a row, keyed on its
\* cocktail_id and position, changes that row and no other.
C29_PositionIsAKey ==
    \A k \in DOMAIN cocktail_ingredients :
        TranslationTargets(cocktail_ingredients, cocktail_ingredients[k]) = {k}

\* a cocktail was stored a second time and has two line items with the
\* same ingredient name
C29_Witness ==
    /\ pc = "store" /\ remaining = <<>> /\ PlanId(1) = PlanId(2)
    /\ \E j, k \in DOMAIN cocktail_ingredients :
          /\ j # k
          /\ cocktail_ingredients[j].cocktail_id = cocktail_ingredients[k].cocktail_id
          /\ cocktail_ingredients[j].ingredient = cocktail_ingredients[k].ingredient

(***************************************************************************)
(* Properties of the upsert of a cocktail (Spec)                           *)
(***************************************************************************)
\* a store that holds no cocktail
EmptyDB == [cocktails |-> <<>>, cocktail_ingredients |-> <<>>]

\* C30: when download_cocktail has committed a cocktail, the row of the
\* cocktail, image_local_path included, and its line items are those that
\* the download of the same record into an empty store gives, whether or
\* not the store held the cocktail before.
C30_UpsertOverwrites ==
    [][(stage = "cocktails" /\ pc = "unit" /\ pc' = "committed") =>
          LET cocktail_id == Head(remaining)
              rows  == SelectSeq(cocktails', LAMBDA r : r.id = cocktail_id)
              fresh == StoreCocktail(EmptyDB, cocktail_id, rows[1].raw_json)
          IN /\ Len(rows) = 1
             /\ rows = fresh.cocktails
             /\ IngredientRowsOf(cocktail_ingredients', cocktail_id)
                   = fresh.cocktail_ingredients]_vars

\* a cocktail whose row had its image path set before the ledger was lost
\* has been downloaded again: its row has no image path
C30_Witness ==
    /\ stage = "cocktails" /\ pc = "committed"
    /\ Head(remaining) \in lost.cocktail_images
    /\ \E k \in DOMAIN cocktails :
          /\ cocktails[k].id = Head(remaining)
          /\ cocktails[k].image_local_path = Null

(***************************************************************************)
(* Properties of the delays (Spec)                                         *)
(***************************************************************************)
\* the step calls _fetch_json or _download_image: a search, the listing, or
\* a unit that is not in the ledger and, for a cocktail image, has its row
\* with an image URL
HelperCalled ==
    /\ pc' # "stopped"
    /\ \/ pc \in {"discover", "list"}
       \/ /\ pc = "unit" /\ remaining # <<>>
          /\ ~InList(Head(remaining), StageList(progress, stage))
          /\ HasImageUrl

\* the call is an image download whose destination file exists
ImageIsThere ==
    IF stage \in ImageStages /\ pc = "unit" THEN TargetExists ELSE FALSE

\* C31: every request a step issues comes directly after a delay of the same
\* call, a step issues at most one request, and a call of a fetch helper
\* performs no delay exactly when it is an image download whose destination
\* file exists, and then it issues no request.
C31_DelayBeforeRequest ==
    [][/\ \A k \in DOMAIN io' :
             io'[k] = "get" => (k > 1 /\ io'[k - 1] = "sleep")
       /\ Cardinality({k \in DOMAIN io' : io'[k] = "get"}) <= 1
       /\ HelperCalled =>
             /\ ImageIsThere => io' = <<>>
             /\ ~ImageIsThere => (io' # <<>> /\ io'[1] = "sleep")]_vars

\* an image was downloaded after its delay while another image file was
\* already on disk
C31_Witness ==
    /\ stage = "ingredient_images" /\ pc = "fetched"
    /\ io = Request
    /\ cocktail_image_files # {}

(***************************************************************************)
(* Properties of the image paths (Spec, SpecRedo)                          *)
(***************************************************************************)
\* the store has the cocktail's row with the path of its image file
HasImagePath(id) ==
    \E k \in DOMAIN cocktails :
        /\ cocktails[k].id = id
        /\ cocktails[k].image_local_path = <<"c", "/">> \o <<id>>

\* C32: every cocktail id in cocktail_images_downloaded, in the ledger on
\* disk and in the ledger in memory, has a row in the store whose
\* image_local_path is the path of that cocktail's image.
C32_LedgeredImageHasPath ==
    \A id \in PersistedUnits.cocktail_images
               \cup Range(progress.cocktail_images_downloaded) :
        HasImagePath(id)

(***************************************************************************)
(* Properties of a run without a fault (Spec)                              *)
(***************************************************************************)
\* run has returned from the export and no fetch failed, no record came
\* without its name and no statement raised since the run began
CleanRunDone == pc = "cleanup" /\ stage = "cleanup" /\ faults = began

\* the store has the cocktail's row with a thumbnail URL
HasThumbnail(id) ==
    \E k \in DOMAIN cocktails :
        cocktails[k].id = id /\ Truthy(cocktails[k].image_url)

\* C33: when a run in which no fetch failed returns, every discovered
\* cocktail id has a row and is in cocktails_downloaded, every discovered
\* ingredient name is the name of a row and is in ingredients_downloaded,
\* every discovered cocktail with a thumbnail URL is in
\* cocktail_images_downloaded and every discovered ingredient name is in
\* ingredient_images_downloaded, whatever the disk was when the run began.
C33_CleanRunCompletes ==
    CleanRunDone =>
        /\ \A id \in Range(all_cocktail_ids) :
              /\ id \in CocktailRowIds
              /\ InList(id, progress.cocktails_downloaded)
              /\ HasThumbnail(id) => InList(id, progress.cocktail_images_downloaded)
        /\ \A name \in Range(all_ingredients) :
              /\ name \in IngredientRowNames
              /\ InList(name, progress.ingredients_downloaded)
              /\ InList(name, progress.ingredient_images_downloaded)

\* the same without the rows of the ingredients: every discovered unit is in
\* the lists of the ledger, and every discovered cocktail has its row
C33_CleanRunLedgersAll ==
    CleanRunDone =>
        /\ \A id \in Range(all_cocktail_ids) :
              /\ id \in CocktailRowIds
              /\ InList(id, progress.cocktails_downloaded)
              /\ HasThumbnail(id) => InList(id, progress.cocktail_images_downloaded)
        /\ \A name \in Range(all_ingredients) :
              /\ InList(name, progress.ingredients_downloaded)
              /\ InList(name, progress.ingredient_images_downloaded)

(***************************************************************************)
(* Properties of what a unit leaves alone (Spec)                           *)
(***************************************************************************)
UnitStages == {"cocktails", "ingredients", "cocktail_images", "ingredient_images"}

\* a step of the download of the unit the loop of a stage is at
UnitStep ==
    /\ stage \in UnitStages /\ remaining # <<>>
    /\ pc \in {"unit", "fetched", "committed", "saving"}
    /\ pc' # "stopped"

\* the rows of a cocktails table that are not those of the id, and the line
\* items of the other cocktails
OtherCocktails(table, id) == SelectSeq(table, LAMBDA r : r.id # id)
OtherLineItems(table, id) == SelectSeq(table, LAMBDA r : r.cocktail_id # id)

\* the rows of an ingredients table that are not those of the name
OtherIngredients(table, name) == SelectSeq(table, LAMBDA r : r.name # name)

\* the step leaves the three lists of the ledger of the other stages as
\* they are
OtherListsUnchanged ==
    \A st \in UnitStages \ {stage} :
        StageList(progress', st) = StageList(progress, st)

\* the step leaves the rows of the other cocktails and their line items as
\* they are; a cocktail image leaves every line item
OtherCocktailsUnchanged ==
    IF stage \in {"cocktails", "cocktail_images"}
    THEN /\ OtherCocktails(cocktails', Head(remaining))
              = OtherCocktails(cocktails, Head(remaining))
         /\ IF stage = "cocktails"
            THEN OtherLineItems(cocktail_ingredients', Head(remaining))
                    = OtherLineItems(cocktail_ingredients, Head(remaining))
            ELSE cocktail_ingredients' = cocktail_ingredients
    ELSE /\ cocktails' = cocktails
         /\ cocktail_ingredients' = cocktail_ingredients

\* the step leaves the rows of the other ingredients as they are
OtherIngredientsUnchanged ==
    IF stage \in {"ingredients", "ingredient_images"}
    THEN OtherIngredients(ingredients', Head(remaining))
            = OtherIngredients(ingredients, Head(remaining))
    ELSE ingredients' = ingredients

\* C34: every step of the download of a unit leaves the three lists of the
\* ledger of the other stages, the rows and line items of the other
\* cocktails, and the rows of the other ingredients as they are; the
\* download of a cocktail or of its image leaves every ingredient row, and
\* the download of an ingredient or of its image every cocktail row and
\* line item.
C34_OnlyTheUnit ==
    [][UnitStep =>
          /\ OtherListsUnchanged
          /\ OtherCocktailsUnchanged
          /\ OtherIngredientsUnchanged]_vars

\* the same without the rows of the ingredients in stage 3
C34_OnlyTheUnitButIngredientRows ==
    [][UnitStep =>
          /\ OtherListsUnchanged
          /\ OtherCocktailsUnchanged
          /\ stage # "ingredients" => OtherIngredientsUnchanged]_vars

(***************************************************************************)
(* Properties of the length of a run (Spec)                                *)
(***************************************************************************)
\* the longest backlog a stage can have: every id, or every entry of the
\* listing
MaxBacklog ==
    IF NumCocktails > Len(Listing.names) THEN NumCocktails ELSE Len(Listing.names)

\* the stages that are left when the run is in a stage
StagesLeft ==
    CASE stage = "discover"          -> 6
      [] stage = "cocktails"         -> 5
      [] stage = "ingredients"       -> 4
      [] stage = "cocktail_images"   -> 3
      [] stage = "ingredient_images" -> 2
      [] stage = "export"            -> 1
      [] OTHER                       -> 0

\* the steps that are left in the stage at most: the searches to come, four
\* steps for each unit the loop has yet to do, the two dumps, the two steps
\* of cleanup
StepsLeft ==
    CASE pc = "discover"           -> NumSymbols - letter
      [] pc = "list"               -> 4 * MaxBacklog + 4
      [] pc = "unit"               -> 4 * Len(remaining) + 3
      [] pc = "fetched"            -> 4 * Len(remaining) + 2
      [] pc = "committed"          -> 4 * Len(remaining) + 1
      [] pc = "saving"             -> 4 * Len(remaining)
      [] pc \in {"export", "cleanup"} -> 1
      [] OTHER                     -> 0

\* a bound on the steps the run has yet to take
Variant == StagesLeft * (4 * MaxBacklog + 5) + StepsLeft

\* the same one step later
VariantNext ==
    LET left == CASE stage' = "discover"          -> 6
                  [] stage' = "cocktails"         -> 5
                  [] stage' = "ingredients"       -> 4
                  [] stage' = "cocktail_images"   -> 3
                  [] stage' = "ingredient_images" -> 2
                  [] stage' = "export"            -> 1
                  [] OTHER                        -> 0
        steps == CASE pc' = "discover"           -> NumSymbols - letter'
                   [] pc' = "list"               -> 4 * MaxBacklog + 4
                   [] pc' = "unit"               -> 4 * Len(remaining') + 3
                   [] pc' = "fetched"            -> 4 * Len(remaining') + 2
                   [] pc' = "committed"          -> 4 * Len(remaining') + 1
                   [] pc' = "saving"             -> 4 * Len(remaining')
                   [] pc' \in {"export", "cleanup"} -> 1
                   [] OTHER                      -> 0
    IN left * (4 * MaxBacklog + 5) + steps

\* the loop of a stage passes the entries of its backlog one by one, in
\* order, and leaves the stage for the next one when none is left
LoopPassesEachOnce ==
    (stage \in UnitStages /\ pc # "list") =>
        /\ stage' = stage =>
              /\ remaining' \in {remaining, Tail(remaining)}
              /\ remaining' = remaining <=> pc' # "unit"
        /\ (stage' # stage /\ stage' # "aborted") => remaining = <<>>

\* a step the run can take by itself
Proceeds ==
    \/ search \/ download_cocktail \/ list_ingredients \/ download_ingredient
    \/ \E outcome \in ImageResults : DownloadCocktailImage(outcome)
    \/ UpdateCocktailImage
    \/ \E outcome \in ImageResults : DownloadIngredientImage(outcome)
    \/ UpdateIngredientImage \/ AppendAndOpen \/ Flush \/ NextStage
    \/ WriteCocktailsJson \/ WriteIngredientsJson \/ CleanupOpen \/ Exit

\* C35: every step of a run lowers a bound on the steps the run has yet to
\* take, whether its fetch succeeds or fails; the loop of a stage passes each
\* entry of its backlog once; and no step of the ingredient records, where
\* the answers are the only thing that varies, ends the run before the
\* export.
C35_RunTerminates ==
    [][InsideRun =>
          /\ VariantNext < Variant
          /\ LoopPassesEachOnce
          /\ stage = "ingredients" => stage' # "aborted"]_vars

\* the same, with the runs that an exception ends before the export
C35_RunIsBounded ==
    [][InsideRun =>
          /\ VariantNext < Variant
          /\ LoopPassesEachOnce]_vars

\* a run that has not ended can take a step
C35_RunGoesOn == pc # "stopped" => ENABLED Proceeds

(***************************************************************************)
(* Properties of cleanup (Spec)                                            *)
(***************************************************************************)
\* run returns or an exception leaves it
RunEnds == stage \notin {"cleanup", "aborted"} /\ stage' \in {"cleanup", "aborted"}

\* C36: when run returns and when an exception leaves it, cleanup is next:
\* it writes the ledger of the process to the ledger file and the process
\* ends. That ledger is the one the run loaded with the units appended one
\* by one, each at the step after the commit of its store write, and nothing
\* else.
C36_CleanupSavesLedger ==
    [][/\ (InsideRun /\ RunEnds) => (pc' = "cleanup" /\ progress' = progress)
       /\ (pc = "cleanup" /\ pc' # "stopped") =>
             (pc' = "closing" /\ progress' = progress)
       /\ (pc = "closing" /\ faults' = faults) =>
             (pc' = "stopped" /\ progress_file' = Written(progress))
       /\ (pc = "stopped" /\ pc' # "stopped") => progress' = load(progress_file)
       /\ InsideRun =>
             /\ pc = "committed" =>
                   progress' = AppendUnit(progress, stage, Head(remaining))
             /\ pc # "committed" => progress' = progress
             /\ pc' = "committed" => pc \in {"unit", "fetched"}]_vars

\* an exception has left run after units were appended, and cleanup is
\* writing the ledger
C36_Witness ==
    /\ stage = "aborted" /\ pc = "closing"
    /\ progress # loaded
    /\ progress_file = Truncated

(***************************************************************************)
(* Properties of the lists of the ledger (Spec)                            *)
(***************************************************************************)
\* no element of the list is in it twice
NoRepeats(q) == \A i, j \in DOMAIN q : q[i] = q[j] => i = j

\* no list of the ledger has an identifier twice
LedgerHasNoRepeats(p) ==
    /\ NoRepeats(p.cocktails_downloaded)
    /\ NoRepeats(p.ingredients_downloaded)
    /\ NoRepeats(p.cocktail_images_downloaded)
    /\ NoRepeats(p.ingredient_images_downloaded)

\* C37: no list of the ledger of the process, and none of the ledger in the
\* file, has the same identifier twice, across runs, failures and kills and
\* when the listing gives a name more than once.
C37_NoRepeatsInLedger ==
    /\ LedgerHasNoRepeats(progress)
    /\ LedgerHasNoRepeats(load(progress_file))

\* the listing gave a name twice, the first entry was downloaded and
\* appended, and the loop has passed the second
C37_Witness ==
    /\ stage = "ingredients" /\ pc = "unit"
    /\ ~NoRepeats(all_ingredients)
    /\ Len(remaining) = 1
    /\ \E k \in DOMAIN all_ingredients :
          /\ all_ingredients[k] # Head(remaining)
          /\ InList(all_ingredients[k], progress.ingredients_downloaded)
          /\ ~InList(all_ingredients[k], loaded.ingredients_downloaded)

(***************************************************************************)
(* Properties of the names of the image files (Spec)                       *)
(***************************************************************************)
\* the names the listing gave have different file names
FileNamesDiffer ==
    \A n, m \in Range(all_ingredients) :
        n # m => safe_filename(n) # safe_filename(m)

\* the step of an ingredient image that succeeds on the file it finds
FoundOnDisk ==
    /\ stage = "ingredient_images" /\ pc = "unit" /\ remaining # <<>>
    /\ pc' = "fetched" /\ io' = <<>>

\* C38: the names the listing gives have pairwise different image file
\* names, and an ingredient image that succeeds on a file found on disk does
\* not find the file of a name that is in ingredient_images_downloaded.
C38_NoSharedImageFile ==
    [][/\ FileNamesDiffer
       /\ FoundOnDisk =>
             \A name \in Range(progress.ingredient_images_downloaded) :
                 safe_filename(name) # safe_filename(Head(remaining))]_vars

====
